---- MODULE Spec2Model ----
(***************************************************************************)
(* A model of the Aegistrate moderation pipeline: the eligibility ladder   *)
(* ModerationEligibility::assess and the orchestration function moderate   *)
(* (bot/core/moderation), driven by the /ban, /kick and /timeout commands. *)
(* Every .await of moderate is a suspension point and is one action here.  *)
(***************************************************************************)
EXTENDS Integers, Sequences, FiniteSets, TLC

(* ------------------------------ bounds --------------------------------- *)
NumUsers == 3
MaxRole == 2
MaxTime == 5

Users == 1..NumUsers
RoleIds == 0..MaxRole
\* "30m", in seconds
Durations == {1800}
\* the wall-clock readings of OffsetDateTime::now_utc()
Clock == {0, 1}
Reasons == {"spam"}
NoReasonProvided == "No reason provided."

(* --------------------------- result values ----------------------------- *)
Unset == [tag |-> "Unset"]
None == [tag |-> "None"]
Some(v) == [tag |-> "Some", val |-> v]
Ok(v) == [tag |-> "Ok", val |-> v]
Err(e) == [tag |-> "Err", why |-> e]
IsOk(r) == r.tag = "Ok"
IsErr(r) == r.tag = "Err"

VARIABLES
    guild,          \* the working guild: owner_id and the top role of every member
    action,         \* ModerationAction of the invocation
    params,         \* ModerationParameters of the invocation
    interaction,    \* the interaction: the invoking user and the "reason" option
    pc,             \* position of moderate
    lookups,        \* what assess's lookups returned: to_guild_cached and to_user
    eligibility,    \* result of ModerationEligibility::assess
    dm_result,      \* result of notify_moderated_member
    action_result,  \* result of ban / kick / timeout
    calls,          \* platform calls issued so far (DM, ban, kick, timeout)
    reports,        \* embeds delivered to the channel so far
    stages,         \* the stages of moderate entered so far, in order
    ret,            \* return value of moderate
    READY_TO_GO,    \* handler.rs: whether the bot finished its ready-up procedures
    wall_clock,     \* SystemTime::now() in seconds since UNIX_EPOCH
    command_executions, \* the "command-executions" collection of CooldownData documents
    invocations,    \* the running run_application_command tasks, one per slot
    enabled_plugins,    \* the "enabled-plugins" collection of PluginData documents
    guild_commands, \* names of the application commands registered for the guild
    plugin_tasks,   \* the running calls of the plugin module, one per slot
    validated_options,  \* the ValidatedOptions of the command whose options are validated
    options,        \* data.options of the interaction: the invocation's CommandDataOptions
    validation      \* what ValidatedOptions::validate returned

moderationVars == <<guild, action, params, interaction, pc, lookups, eligibility,
                    dm_result, action_result, calls, reports, stages, ret>>

dispatchVars == <<READY_TO_GO, wall_clock, command_executions, invocations>>

pluginVars == <<enabled_plugins, guild_commands, plugin_tasks>>

validationVars == <<validated_options, options, validation>>

\* what moderate, the dispatcher and the plugin module never touch
outsideModeration == <<dispatchVars, pluginVars, validationVars>>
outsideDispatch == <<moderationVars, pluginVars, validationVars>>
outsidePlugin == <<moderationVars, dispatchVars, validationVars>>
outsideValidation == <<moderationVars, dispatchVars, pluginVars>>

vars == <<moderationVars, dispatchVars, pluginVars, validationVars>>

(* ------------------------- ModerationAction ---------------------------- *)
ModerationActions == {"Ban", "Kick", "Timeout"}

get_moderation_verb(a) ==
    CASE a = "Ban" -> <<"b", "a", "n">>
      [] a = "Kick" -> <<"k", "i", "c", "k">>
      [] a = "Timeout" -> <<"t", "i", "m", "e", "o", "u", "t">>

get_moderation_verb_past(a) ==
    CASE a = "Ban" -> <<"b", "a", "n", "n", "e", "d">>
      [] a = "Kick" -> <<"k", "i", "c", "k", "e", "d">>
      [] a = "Timeout" -> <<"t", "i", "m", "e", "d", " ", "o", "u", "t">>

to_uppercase(c) ==
    CASE c = "b" -> "B"
      [] c = "k" -> "K"
      [] c = "t" -> "T"
      [] OTHER -> c

capitalize_first_Identity(s) == s

capitalize_first(s) ==
    IF s = <<>> THEN <<>> ELSE <<to_uppercase(Head(s))>> \o Tail(s)

(* ------------------------------ the guild ------------------------------ *)
\* position of a role in the guild's role list; role 0 stands for "no role"
RolePosition(r) == (r + 1) \div 2

highest_role_info(g, u) == <<g.topRole[u], RolePosition(g.topRole[u])>>

\* serenity's Guild::greater_member_hierarchy
greater_member_hierarchy(g, lhs_id, rhs_id) ==
    LET lhs == highest_role_info(g, lhs_id)
        rhs == highest_role_info(g, rhs_id)
    IN  IF lhs_id = rhs_id THEN None
        ELSE IF lhs_id = g.owner_id THEN Some(lhs_id)
        ELSE IF rhs_id = g.owner_id THEN Some(rhs_id)
        ELSE IF (lhs[2] = 0 /\ rhs[2] = 0) \/ lhs[1] = rhs[1] THEN None
        ELSE IF lhs[2] > rhs[2] THEN Some(lhs_id)
        ELSE IF rhs[2] > lhs[2] THEN Some(rhs_id)
        ELSE IF lhs[1] < rhs[1] THEN Some(lhs_id)
        ELSE Some(rhs_id)

(* ---------------------- ModerationEligibility -------------------------- *)
ModerationEligibilities ==
    {"Eligible", "BotUser", "ServerOwner", "AreThemselves", "LowerHierarchy"}

\* guild_cached: the result of to_guild_cached (None or Some(guild));
\* fetched: what member.to_user(http) returns when called (Err, or Ok of the
\* fetched user's bot flag)
assess_HierarchyBeforeOwner(moderator, member, guild_cached, fetched) ==
    IF guild_cached = None THEN Err("Failed to get guild data from the cache.")
    ELSE LET g == guild_cached.val IN
        IF moderator = member THEN Ok("AreThemselves")
        ELSE IF IsErr(fetched) THEN fetched
        ELSE IF fetched.val THEN Ok("BotUser")
        ELSE IF greater_member_hierarchy(g, moderator, member) = Some(member)
            THEN Ok("LowerHierarchy")
        ELSE IF moderator # g.owner_id THEN Ok("ServerOwner")
        ELSE Ok("Eligible")

assess_BotBeforeSelf(moderator, member, guild_cached, fetched) ==
    IF guild_cached = None THEN Err("Failed to get guild data from the cache.")
    ELSE LET g == guild_cached.val IN
        IF IsErr(fetched) THEN fetched
        ELSE IF fetched.val THEN Ok("BotUser")
        ELSE IF moderator = member THEN Ok("AreThemselves")
        ELSE IF moderator # g.owner_id THEN Ok("ServerOwner")
        ELSE IF greater_member_hierarchy(g, moderator, member) = Some(member)
            THEN Ok("LowerHierarchy")
        ELSE Ok("Eligible")

assess_OwnerBeforeBot(moderator, member, guild_cached, fetched) ==
    IF guild_cached = None THEN Err("Failed to get guild data from the cache.")
    ELSE LET g == guild_cached.val IN
        IF moderator = member THEN Ok("AreThemselves")
        ELSE IF moderator # g.owner_id THEN Ok("ServerOwner")
        ELSE IF IsErr(fetched) THEN fetched
        ELSE IF fetched.val THEN Ok("BotUser")
        ELSE IF greater_member_hierarchy(g, moderator, member) = Some(member)
            THEN Ok("LowerHierarchy")
        ELSE Ok("Eligible")

assess(moderator, member, guild_cached, fetched) ==
    IF guild_cached = None THEN Err("Failed to get guild data from the cache.")
    ELSE LET g == guild_cached.val IN
        IF moderator = member THEN Ok("AreThemselves")
        ELSE IF IsErr(fetched) THEN fetched
        ELSE IF fetched.val THEN Ok("BotUser")
        ELSE IF moderator # g.owner_id THEN Ok("ServerOwner")
        ELSE IF greater_member_hierarchy(g, moderator, member) = Some(member)
            THEN Ok("LowerHierarchy")
        ELSE Ok("Eligible")

(* ------------------------------- embeds -------------------------------- *)
mention(u) == [mention |-> u]

embed_template(title, description, kind, fields) ==
    [title |-> <<"**", title, "**">>, description |-> description,
     kind |-> kind, fields |-> fields]

create_info_embed(title, description, fields) ==
    embed_template(title, description, "Info", fields)

create_warning_embed(title, warning, fields) ==
    embed_template(title, warning, "Warn", fields)

create_error_embed(error, cause, fields) ==
    embed_template("Error!", error, "Error", [fields EXCEPT !.Cause = Some(cause)])

NoFields ==
    [Action |-> None, Member |-> None, Duration |-> None, Reason |-> None,
     Cause |-> None, FailureReason |-> None]

wait_a_moment_embed ==
    create_info_embed("Wait a moment...", <<"Hang tight, I'm working on it.">>, NoFields)

eligibility_assessment_failed_embed(error_message) ==
    create_error_embed("Failed to assess eligibility!",
        <<"The bot failed to assess the eligibility of the member for moderation: ",
          error_message>>, NoFields)

ineligibility_error(verdict, moderator_mention, member_mention, a) ==
    CASE verdict = "BotUser" ->
            <<member_mention, " is a bot user, and cannot be ", get_moderation_verb_past(a),
              ". Please manage the integration attached to ", member_mention, " instead.">>
      [] verdict = "ServerOwner" ->
            <<member_mention, " is a server owner, and cannot be ",
              get_moderation_verb_past(a), ".">>
      [] verdict = "AreThemselves" ->
            <<"You cannot ", get_moderation_verb(a), " yourself, ", moderator_mention, ".">>
      [] verdict = "LowerHierarchy" ->
            <<member_mention, " is higher in the hierarchy than ", moderator_mention,
              ", and cannot be ", get_moderation_verb_past(a), ".">>

ineligibility_cause(verdict, a) ==
    CASE verdict = "BotUser" ->
            <<"Bot users are attached to integrations, so it is better to manage them directly than to ",
              get_moderation_verb(a), " the bot users.">>
      [] verdict = "ServerOwner" ->
            <<"Server owners are the highest in the hierarchy, so they cannot be ",
              get_moderation_verb_past(a), ".">>
      [] verdict = "AreThemselves" ->
            <<"You don't have higher permissions than yourself.">>
      [] verdict = "LowerHierarchy" ->
            <<"You don't have higher permissions than the member you are trying to ",
              get_moderation_verb_past(a), ".">>

create_ineligibility_embed(verdict, moderator_mention, member_mention, a) ==
    create_error_embed(ineligibility_error(verdict, moderator_mention, member_mention, a),
                       ineligibility_cause(verdict, a), NoFields)

notification_results_embed(dm, member) ==
    IF IsErr(dm)
    THEN create_warning_embed("Notification failed!",
            <<"The bot failed to send ", mention(member),
              " a DM. Please notify them manually.">>,
            [NoFields EXCEPT !.FailureReason = Some(dm.why)])
    ELSE create_info_embed("Notified!", <<mention(member), " has been notified.">>, NoFields)

duration_text(duration) ==
    IF duration = None THEN <<"Not applicable">> ELSE <<"duration", duration.val>>

action_results_embed(result, a, p) ==
    IF IsErr(result)
    THEN create_error_embed(<<"The bot failed to ", get_moderation_verb(a), " ",
                              mention(p.user), ".">>, result.why, NoFields)
    ELSE create_info_embed("Success!",
            <<mention(p.user), " has been successfully ", get_moderation_verb_past(a), ".">>,
            [NoFields EXCEPT !.Action = Some(capitalize_first(get_moderation_verb(a))),
                             !.Member = Some(mention(p.user)),
                             !.Duration = Some(duration_text(p.duration)),
                             !.Reason = Some(p.reason)])

(* ------------------------------ Init ----------------------------------- *)
NoAction == "NoAction"
NoParams == [user |-> 0, reason |-> "", duration |-> None]
NoInteraction == [user |-> 0, reason |-> None]

\* the users who send interactions, the tasks serenity runs for them at the
\* same time, and the command names they type
Executioners == {1, 2}
Invocations == {1, 2}
InvokedNames == {"ban", "blacklist", "typo"}
\* the instants at which the wall clock is looked at
Times == {0, 2, MaxTime}

NoInvocation ==
    [pc |-> "idle", user |-> 0, name |-> None, command |-> None, cooled_down |-> Unset,
     result |-> Unset, timestamp |-> 0, recorded |-> Unset, response |-> None]

\* the calls of the plugin module that run at the same time
PluginTasks == {1, 2}

NoTask == [pc |-> "idle", op |-> "none", plugin |-> "none", todo |-> <<>>, ret |-> Unset]

\* no moderation command has been run yet
ModerationIdle ==
    /\ action = NoAction
    /\ params = NoParams
    /\ interaction = NoInteraction
    /\ pc = "idle"
    /\ lookups = Unset
    /\ eligibility = Unset
    /\ dm_result = Unset
    /\ action_result = Unset
    /\ calls = <<>>
    /\ reports = <<>>
    /\ stages = <<>>
    /\ ret = Unset

\* no interaction has been received yet
DispatchIdle ==
    /\ READY_TO_GO = FALSE
    /\ wall_clock = 0
    /\ command_executions = <<>>
    /\ invocations = [i \in Invocations |-> NoInvocation]

\* the plugin module has not been called yet
PluginIdle ==
    /\ enabled_plugins = <<>>
    /\ guild_commands = {}
    /\ plugin_tasks = [t \in PluginTasks |-> NoTask]

\* ValidatedOptions::default(), and no options received
ValidationIdle ==
    /\ validated_options = [dates |-> <<>>, durations |-> <<>>, guild_members |-> <<>>]
    /\ options = <<>>
    /\ validation = Unset

Init ==
    /\ guild \in [owner_id : Users, topRole : [Users -> RoleIds]]
    /\ ModerationIdle
    /\ DispatchIdle
    /\ PluginIdle
    /\ ValidationIdle

(* ----------------- the commands: Ban, Kick, Timeout -------------------- *)
\* get_option_or(options, "reason", "No reason provided.")
get_option_or(option, default) == IF option = None THEN default ELSE option.val

ReasonOptions == {None} \cup {Some(r) : r \in Reasons}

Enter(a, moderator, member, reason_option, duration) ==
    /\ pc = "idle"
    /\ action' = a
    /\ params' = [user |-> member,
                  reason |-> get_option_or(reason_option, NoReasonProvided),
                  duration |-> duration]
    /\ interaction' = [user |-> moderator, reason |-> reason_option]
    /\ pc' = "acknowledge"
    /\ UNCHANGED outsideModeration
    /\ UNCHANGED <<guild, lookups, eligibility, dm_result, action_result, calls, reports, stages, ret>>

BanExecute ==
    \E moderator \in Users, member \in Users, reason_option \in ReasonOptions :
        Enter("Ban", moderator, member, reason_option, None)

KickExecute ==
    \E moderator \in Users, member \in Users, reason_option \in ReasonOptions :
        Enter("Kick", moderator, member, reason_option, None)

TimeoutExecute ==
    \E moderator \in Users, member \in Users, reason_option \in ReasonOptions,
       d \in Durations :
        Enter("Timeout", moderator, member, reason_option, Some(d))

(* ------------------------------ moderate ------------------------------- *)
Return(r) == pc' = "done" /\ ret' = r

\* stage 1: wait_a_moment(...).await?
Acknowledge_Ignore ==
    /\ pc = "acknowledge"
    /\ stages' = Append(stages, "acknowledge")
    /\ \E sent \in BOOLEAN :
        /\ reports' = IF sent THEN Append(reports, wait_a_moment_embed) ELSE reports
        /\ pc' = "assess"
        /\ ret' = IF sent THEN ret ELSE Err("create_interaction_response")
    /\ UNCHANGED outsideModeration
    /\ UNCHANGED <<guild, action, params, interaction, lookups, eligibility, dm_result,
                   action_result, calls>>

Acknowledge ==
    /\ pc = "acknowledge"
    /\ stages' = Append(stages, "acknowledge")
    /\ \E sent \in BOOLEAN :
        IF sent
        THEN /\ reports' = Append(reports, wait_a_moment_embed)
             /\ pc' = "assess"
             /\ ret' = ret
        ELSE /\ reports' = reports
             /\ Return(Err("create_interaction_response"))
    /\ UNCHANGED outsideModeration
    /\ UNCHANGED <<guild, action, params, interaction, lookups, eligibility, dm_result,
                   action_result, calls>>

\* stage 2: ModerationEligibility::assess(...).await
Assess ==
    /\ pc = "assess"
    /\ stages' = Append(stages, "assess")
    /\ \E in_cache \in BOOLEAN, user \in {Err("to_user"), Ok(TRUE), Ok(FALSE)} :
        /\ lookups' = [tag |-> "Done",
                       guild_cached |-> IF in_cache THEN Some(guild) ELSE None,
                       fetched |-> user]
        /\ eligibility' = assess(interaction.user, params.user,
                                 lookups'.guild_cached, lookups'.fetched)
    /\ pc' = IF IsErr(eligibility') THEN "assessment_failed"
             ELSE IF eligibility'.val # "Eligible" THEN "ineligible"
             ELSE "notify"
    /\ UNCHANGED outsideModeration
    /\ UNCHANGED <<guild, action, params, interaction, dm_result, action_result,
                   calls, reports, ret>>

\* send_eligibility_assessment_failed_embed(...).await?; bail!(...)
SendAssessmentFailed_FallThrough ==
    /\ pc = "assessment_failed"
    /\ \E sent \in BOOLEAN :
        IF sent
        THEN /\ reports' = Append(reports, eligibility_assessment_failed_embed(eligibility.why))
             /\ pc' = "notify"
             /\ ret' = ret
        ELSE /\ reports' = reports
             /\ Return(Err("edit_original_interaction_response"))
    /\ UNCHANGED outsideModeration
    /\ UNCHANGED <<guild, action, params, interaction, lookups, eligibility, dm_result,
                   action_result, calls, stages>>

SendAssessmentFailed ==
    /\ pc = "assessment_failed"
    /\ \E sent \in BOOLEAN :
        IF sent
        THEN /\ reports' = Append(reports, eligibility_assessment_failed_embed(eligibility.why))
             /\ Return(Err(<<"Failed to assess moderation eligibility: ", eligibility.why>>))
        ELSE /\ reports' = reports
             /\ Return(Err("edit_original_interaction_response"))
    /\ UNCHANGED outsideModeration
    /\ UNCHANGED <<guild, action, params, interaction, lookups, eligibility, dm_result,
                   action_result, calls, stages>>

\* return respond_with_embed(.., create_ineligibility_embed(..)).await.map(|_| ())
SendIneligible_FallThrough ==
    /\ pc = "ineligible"
    /\ \E sent \in BOOLEAN :
        IF sent
        THEN /\ reports' = Append(reports,
                    create_ineligibility_embed(eligibility.val, mention(interaction.user),
                                               mention(params.user), action))
             /\ pc' = "action"
             /\ ret' = ret
        ELSE /\ reports' = reports
             /\ Return(Err("edit_original_interaction_response"))
    /\ UNCHANGED outsideModeration
    /\ UNCHANGED <<guild, action, params, interaction, lookups, eligibility, dm_result,
                   action_result, calls, stages>>

SendIneligible ==
    /\ pc = "ineligible"
    /\ \E sent \in BOOLEAN :
        IF sent
        THEN /\ reports' = Append(reports,
                    create_ineligibility_embed(eligibility.val, mention(interaction.user),
                                               mention(params.user), action))
             /\ Return(Ok("unit"))
        ELSE /\ reports' = reports
             /\ Return(Err("edit_original_interaction_response"))
    /\ UNCHANGED outsideModeration
    /\ UNCHANGED <<guild, action, params, interaction, lookups, eligibility, dm_result,
                   action_result, calls, stages>>

\* stage 3: notify_moderated_member(action, params, context).await
\* guild.member(..).await? , guild.name(cache).unwrap() , user.dm(..).await
NotifyOutcomes == {"member_fetch_failed", "guild_not_cached", "dm_failed", "dm_sent"}

NotifyModeratedMember_Abort ==
    /\ pc = "notify"
    /\ stages' = Append(stages, "notify")
    /\ \E outcome \in NotifyOutcomes :
        CASE outcome = "member_fetch_failed" ->
                /\ dm_result' = Err("guild.member")
                /\ calls' = calls
                /\ Return(dm_result')
          [] outcome = "guild_not_cached" ->
                /\ dm_result' = dm_result
                /\ calls' = calls
                /\ Return([tag |-> "Panic"])
          [] outcome = "dm_failed" ->
                /\ dm_result' = Err("user.dm")
                /\ calls' = Append(calls, [call |-> "dm", user |-> params.user,
                        title |-> capitalize_first(get_moderation_verb_past(action))])
                /\ Return(dm_result')
          [] outcome = "dm_sent" ->
                /\ dm_result' = Ok("unit")
                /\ calls' = Append(calls, [call |-> "dm", user |-> params.user,
                        title |-> capitalize_first(get_moderation_verb_past(action))])
                /\ pc' = "notification_results"
                /\ ret' = ret
    /\ UNCHANGED outsideModeration
    /\ UNCHANGED <<guild, action, params, interaction, lookups, eligibility, action_result, reports>>

NotifyModeratedMember ==
    /\ pc = "notify"
    /\ stages' = Append(stages, "notify")
    /\ \E outcome \in NotifyOutcomes :
        CASE outcome = "member_fetch_failed" ->
                /\ dm_result' = Err("guild.member")
                /\ calls' = calls
                /\ pc' = "notification_results"
                /\ ret' = ret
          [] outcome = "guild_not_cached" ->
                /\ dm_result' = dm_result
                /\ calls' = calls
                /\ Return([tag |-> "Panic"])
          [] outcome = "dm_failed" ->
                /\ dm_result' = Err("user.dm")
                /\ calls' = Append(calls, [call |-> "dm", user |-> params.user,
                        title |-> capitalize_first(get_moderation_verb_past(action))])
                /\ pc' = "notification_results"
                /\ ret' = ret
          [] outcome = "dm_sent" ->
                /\ dm_result' = Ok("unit")
                /\ calls' = Append(calls, [call |-> "dm", user |-> params.user,
                        title |-> capitalize_first(get_moderation_verb_past(action))])
                /\ pc' = "notification_results"
                /\ ret' = ret
    /\ UNCHANGED outsideModeration
    /\ UNCHANGED <<guild, action, params, interaction, lookups, eligibility, action_result, reports>>

\* send_notification_results(dm_result, params.user, http, interaction).await?
SendNotificationResults_Retry ==
    /\ pc = "notification_results"
    /\ \E sent \in BOOLEAN :
        IF sent
        THEN /\ reports' = Append(reports, notification_results_embed(dm_result, params.user))
             /\ pc' = IF IsErr(dm_result) THEN "notify" ELSE "action"
             /\ ret' = ret
        ELSE /\ reports' = reports
             /\ Return(Err("create_followup_message"))
    /\ UNCHANGED outsideModeration
    /\ UNCHANGED <<guild, action, params, interaction, lookups, eligibility, dm_result,
                   action_result, calls, stages>>

SendNotificationResults_Ignore ==
    /\ pc = "notification_results"
    /\ \E sent \in BOOLEAN :
        /\ reports' = IF sent
                      THEN Append(reports, notification_results_embed(dm_result, params.user))
                      ELSE reports
        /\ pc' = "action"
        /\ ret' = ret
    /\ UNCHANGED outsideModeration
    /\ UNCHANGED <<guild, action, params, interaction, lookups, eligibility, dm_result,
                   action_result, calls, stages>>

SendNotificationResults ==
    /\ pc = "notification_results"
    /\ \E sent \in BOOLEAN :
        IF sent
        THEN /\ reports' = Append(reports, notification_results_embed(dm_result, params.user))
             /\ pc' = "action"
             /\ ret' = ret
        ELSE /\ reports' = reports
             /\ Return(Err("create_followup_message"))
    /\ UNCHANGED outsideModeration
    /\ UNCHANGED <<guild, action, params, interaction, lookups, eligibility, dm_result,
                   action_result, calls, stages>>

\* the platform calls of stage 4
ban(p) == [call |-> "ban", user |-> p.user, reason |-> p.reason, until |-> None]

kick(p) == [call |-> "kick_with_reason", user |-> p.user, reason |-> p.reason, until |-> None]

timeout(p, now) ==
    [call |-> "disable_communication_until", user |-> p.user, reason |-> None,
     until |-> Some(now + p.duration.val)]

PlatformActions == {"ban", "kick_with_reason", "disable_communication_until"}

\* stage 4: match action { Ban => ban(..).await, Kick => kick(..).await, Timeout => .. }
PerformAction_Propagate ==
    /\ pc = "action"
    /\ stages' = Append(stages, "action")
    /\ \E now \in Clock :
        /\ action # "Timeout" => now = 0
        /\ calls' = Append(calls,
                CASE action = "Ban" -> ban(params)
                  [] action = "Kick" -> kick(params)
                  [] action = "Timeout" -> timeout(params, now))
    /\ \E done \in BOOLEAN :
        IF done
        THEN /\ action_result' = Ok("unit")
             /\ pc' = "action_results"
             /\ ret' = ret
        ELSE /\ action_result' = Err("platform")
             /\ Return(Err("platform"))
    /\ UNCHANGED outsideModeration
    /\ UNCHANGED <<guild, action, params, interaction, lookups, eligibility, dm_result, reports>>

PerformAction ==
    /\ pc = "action"
    /\ stages' = Append(stages, "action")
    /\ \E now \in Clock :
        /\ action # "Timeout" => now = 0
        /\ calls' = Append(calls,
                CASE action = "Ban" -> ban(params)
                  [] action = "Kick" -> kick(params)
                  [] action = "Timeout" -> timeout(params, now))
    /\ \E done \in BOOLEAN :
        action_result' = IF done THEN Ok("unit") ELSE Err("platform")
    /\ pc' = "action_results"
    /\ UNCHANGED outsideModeration
    /\ UNCHANGED <<guild, action, params, interaction, lookups, eligibility, dm_result, reports, ret>>

\* stage 5: send_action_results(action_result, action, params, http, interaction).await
SendActionResults ==
    /\ pc = "action_results"
    /\ stages' = Append(stages, "report")
    /\ \E sent \in BOOLEAN :
        IF sent
        THEN /\ reports' = Append(reports, action_results_embed(action_result, action, params))
             /\ Return(Ok("unit"))
        ELSE /\ reports' = reports
             /\ Return(Err("edit_original_interaction_response"))
    /\ UNCHANGED outsideModeration
    /\ UNCHANGED <<guild, action, params, interaction, lookups, eligibility, dm_result,
                   action_result, calls>>

Next ==
    \/ BanExecute
    \/ KickExecute
    \/ TimeoutExecute
    \/ Acknowledge
    \/ Assess
    \/ SendAssessmentFailed
    \/ SendIneligible
    \/ NotifyModeratedMember
    \/ SendNotificationResults
    \/ PerformAction
    \/ SendActionResults

Spec == Init /\ [][Next]_vars

(* ========================= the command table =========================== *)
Metadata(name, plugin, cooldown_secs, aliases) ==
    [name |-> name, plugin |-> plugin, cooldown_secs |-> cooldown_secs, aliases |-> aliases]

all_commands_SharedAlias ==
    << Metadata("ban", "Moderation", 5, Some(<<"blacklist">>)),
       Metadata("kick", "Moderation", 5, Some(<<"blacklist">>)),
       Metadata("ping", "Information", 0, Some(<<"am-i-alive">>)),
       Metadata("enable", "Plugins", 10, None),
       Metadata("disable", "Plugins", 10, None) >>

\* Plugin::commands_by_plugins over every Plugin, in the order of the enum
all_commands ==
    << Metadata("ban", "Moderation", 5, Some(<<"blacklist">>)),
       Metadata("kick", "Moderation", 5, None),
       Metadata("ping", "Information", 0, Some(<<"am-i-alive">>)),
       Metadata("enable", "Plugins", 10, None),
       Metadata("disable", "Plugins", 10, None) >>

get_all_names(metadata) ==
    IF metadata.aliases = None THEN <<metadata.name>>
    ELSE Append(metadata.aliases.val, metadata.name)

Contains(seq, x) == \E i \in 1..Len(seq) : seq[i] = x

Range(seq) == {seq[k] : k \in 1..Len(seq)}

\* Iterator::find: the first element the predicate holds for
FirstIndex(indices) == CHOOSE i \in indices : \A j \in indices : i <= j

command_by_name_PrimaryOnly(name) ==
    LET found == {i \in 1..Len(all_commands) : all_commands[i].name = name}
    IN  IF found = {} THEN None ELSE Some(all_commands[FirstIndex(found)])

command_by_name(name) ==
    LET found == {i \in 1..Len(all_commands) : Contains(get_all_names(all_commands[i]), name)}
    IN  IF found = {} THEN None ELSE Some(all_commands[FirstIndex(found)])

(* ===================== CooldownData and cooldown ======================= *)
CooldownData(name_and_user, timestamp) ==
    [name_and_user |-> name_and_user, timestamp |-> timestamp]

\* format!("{user_id}:{cmd_name}")
user_cmd_key_str(user_id, cmd_name) == <<user_id, ":", cmd_name>>

\* find_one with the filter name_and_user = key: the first matching document
find_one(collection, key) ==
    LET found == {i \in 1..Len(collection) : collection[i].name_and_user = key}
    IN  IF found = {} THEN None ELSE Some(collection[FirstIndex(found)])

get_last_use(collection, user_id, cmd_name) ==
    LET result == find_one(collection, user_cmd_key_str(user_id, cmd_name))
    IN  IF result = None THEN None ELSE Some(result.val.timestamp)

filter_one_by_self(collection, data) == find_one(collection, data.name_and_user)

insert_one_Replace(collection, data) == <<data>>

insert_one(collection, data) == Append(collection, data)

\* update with the filter of self and set = every field of self
update_entry_Unfiltered(collection, data) ==
    [i \in 1..Len(collection) |-> data]

update_entry(collection, data) ==
    [i \in 1..Len(collection) |->
        IF collection[i].name_and_user = data.name_and_user THEN data ELSE collection[i]]

\* last_use is what CooldownData::get_last_use(..).await returned; a u64
\* subtraction that would go below zero is the outcome Overflow
get_remaining_cooldown_NoSubtraction(now, last_use, cooldown) ==
    IF IsErr(last_use) THEN last_use
    ELSE IF last_use.val = None THEN Ok(0)
    ELSE IF now < last_use.val.val THEN [tag |-> "Overflow"]
    ELSE LET between_period == now - last_use.val.val
         IN  Ok(IF between_period >= cooldown THEN 0 ELSE cooldown)

get_remaining_cooldown(now, last_use, cooldown) ==
    IF IsErr(last_use) THEN last_use
    ELSE IF last_use.val = None THEN Ok(0)
    ELSE IF now < last_use.val.val THEN [tag |-> "Overflow"]
    ELSE LET between_period == now - last_use.val.val
         IN  Ok(IF between_period >= cooldown THEN 0 ELSE cooldown - between_period)

\* .map(|cooldown| cooldown == 0)
cooled_down_AnyRemaining(now, last_use, cooldown) ==
    LET remaining == get_remaining_cooldown(now, last_use, cooldown)
    IN  IF IsOk(remaining) THEN Ok(TRUE) ELSE remaining

cooled_down(now, last_use, cooldown) ==
    LET remaining == get_remaining_cooldown(now, last_use, cooldown)
    IN  IF IsOk(remaining) THEN Ok(remaining.val = 0) ELSE remaining

(* =============== Handler: dispatch of application commands ============= *)
InFlight(i) == invocations[i].pc \notin {"idle", "done", "panicked"}

Become(i, invocation) == invocations' = [invocations EXCEPT ![i] = invocation]

Respond(error, seconds_left) == Some([error |-> error, seconds_left |-> seconds_left])

\* the task of invocation i ends: its locals are dropped, what it did stays
\* known (what cooled_down returned, the response sent, the logged result of
\* execute, the dropped result of use_last)
End(i, how, response, recorded) ==
    Become(i, [NoInvocation EXCEPT !.pc = how,
                                   !.cooled_down = invocations[i].cooled_down,
                                   !.result = invocations[i].result,
                                   !.recorded = recorded, !.response = response])

\* Handler::appear_active, the end of the ready event
AppearActive ==
    /\ READY_TO_GO' = TRUE
    /\ UNCHANGED <<wall_clock, command_executions, invocations>>
    /\ UNCHANGED outsideDispatch

\* wall-clock time passes
Tick ==
    /\ \E later \in Times :
        /\ later > wall_clock
        /\ wall_clock' = later
    /\ UNCHANGED <<READY_TO_GO, command_executions, invocations>>
    /\ UNCHANGED outsideDispatch

\* interaction_create and run_application_command up to its first await;
\* data.name is read for the resolution and the unknown-command response
\* only, and is not carried past them
Dispatch(i, user, name) ==
    LET command == command_by_name(name)
    IN  Become(i, IF ~READY_TO_GO
                  THEN [NoInvocation EXCEPT !.user = user, !.name = Some(name),
                                            !.pc = "not_ready_respond"]
                  ELSE IF command = None
                  THEN [NoInvocation EXCEPT !.user = user, !.name = Some(name),
                                            !.pc = "unknown_command_respond"]
                  ELSE [NoInvocation EXCEPT !.user = user, !.name = Some(name),
                                            !.command = command, !.pc = "cooled_down"])

InteractionCreate(i) ==
    /\ ~InFlight(i)
    /\ \E user \in Executioners, name \in InvokedNames : Dispatch(i, user, name)
    /\ UNCHANGED <<READY_TO_GO, wall_clock, command_executions>>
    /\ UNCHANGED outsideDispatch

\* let _ = Self::not_ready_respond(http, app_interaction).await; return;
NotReadyRespond(i) ==
    /\ invocations[i].pc = "not_ready_respond"
    /\ \E sent \in BOOLEAN :
        End(i, "done",
            IF sent THEN Respond("Rude! I'm not even done getting ready!", None) ELSE None,
            Unset)
    /\ UNCHANGED <<READY_TO_GO, wall_clock, command_executions>>
    /\ UNCHANGED outsideDispatch

\* let _ = Self::unknown_command_respond(http, app_interaction, command_name).await; return;
UnknownCommandRespond(i) ==
    /\ invocations[i].pc = "unknown_command_respond"
    /\ \E sent \in BOOLEAN :
        End(i, "done",
            IF sent THEN Respond("Sorry champ, can't help you out there.", None) ELSE None,
            Unset)
    /\ UNCHANGED <<READY_TO_GO, wall_clock, command_executions>>
    /\ UNCHANGED outsideDispatch

\* what CooldownData::get_last_use(user_id, name).await returns for this invocation
ReadLastUse(i, io_ok) ==
    IF io_ok
    THEN Ok(get_last_use(command_executions, invocations[i].user, invocations[i].command.val.name))
    ELSE Err("find_one")

Key0(i) == user_cmd_key_str(invocations[i].user, invocations[i].command.val.name)
DropKey(collection, key) == SelectSeq(collection, LAMBDA data : data.name_and_user # key)

\* if !cooled_down(..).await.unwrap() { not_cooled_down_respond; return } else execute
CooledDown_UnwrapOrTrue(i) ==
    /\ invocations[i].pc = "cooled_down"
    /\ \E io_ok \in BOOLEAN, overflow_checks \in BOOLEAN :
        LET cooldown == invocations[i].command.val.cooldown_secs
            ready == cooled_down(wall_clock, ReadLastUse(i, io_ok), cooldown)
        IN  Become(i, [invocations[i] EXCEPT
                    !.name = None,
                    !.cooled_down = ready,
                    !.pc = IF ~IsOk(ready) THEN "execute"
                           ELSE IF ready.val THEN "execute"
                           ELSE "not_cooled_down_respond"])
    /\ UNCHANGED <<READY_TO_GO, wall_clock, command_executions>>
    /\ UNCHANGED outsideDispatch

CooledDown_CheckAndRecord(i) ==
    /\ invocations[i].pc = "cooled_down"
    /\ \E io_ok \in BOOLEAN, overflow_checks \in BOOLEAN :
        LET cooldown == invocations[i].command.val.cooldown_secs
            ready == cooled_down(wall_clock, ReadLastUse(i, io_ok), cooldown)
        IN  IF IsErr(ready) \/ (ready.tag = "Overflow" /\ overflow_checks)
            THEN Become(i, [NoInvocation EXCEPT !.pc = "panicked", !.cooled_down = ready])
            ELSE Become(i, [invocations[i] EXCEPT
                    !.name = None,
                    !.cooled_down = ready,
                    !.pc = IF ready.tag = "Overflow" THEN "execute"
                           ELSE IF ready.val THEN "execute"
                           ELSE "not_cooled_down_respond"])
    /\ command_executions' =
            IF invocations'[i].pc = "execute"
            THEN Append(DropKey(command_executions, Key0(i)), CooldownData(Key0(i), wall_clock))
            ELSE command_executions
    /\ UNCHANGED <<READY_TO_GO, wall_clock>>
    /\ UNCHANGED outsideDispatch

CooledDown(i) ==
    /\ invocations[i].pc = "cooled_down"
    /\ \E io_ok \in BOOLEAN, overflow_checks \in BOOLEAN :
        LET cooldown == invocations[i].command.val.cooldown_secs
            ready == cooled_down(wall_clock, ReadLastUse(i, io_ok), cooldown)
        IN  IF IsErr(ready) \/ (ready.tag = "Overflow" /\ overflow_checks)
            THEN Become(i, [NoInvocation EXCEPT !.pc = "panicked", !.cooled_down = ready])
            ELSE Become(i, [invocations[i] EXCEPT
                    !.name = None,
                    !.cooled_down = ready,
                    !.pc = IF ready.tag = "Overflow" THEN "execute"
                           ELSE IF ready.val THEN "execute"
                           ELSE "not_cooled_down_respond"])
    /\ UNCHANGED <<READY_TO_GO, wall_clock, command_executions>>
    /\ UNCHANGED outsideDispatch

\* not_cooled_down_respond: get_remaining_cooldown(..).await?, then the
\* ephemeral "Cool down!" embed; the caller drops the result
NotCooledDownRespond_RecordsAttempt(i) ==
    /\ invocations[i].pc = "not_cooled_down_respond"
    /\ \E sent \in BOOLEAN :
        End(i, "done",
            IF sent
            THEN Respond("Cool down! You need to wait a bit more before using this command.",
                         None)
            ELSE None,
            Unset)
    /\ command_executions' =
            insert_one(command_executions,
                       CooldownData(user_cmd_key_str(invocations[i].user,
                                                     invocations[i].command.val.name),
                                    wall_clock))
    /\ UNCHANGED <<READY_TO_GO, wall_clock>>
    /\ UNCHANGED outsideDispatch

NotCooledDownRespond(i) ==
    /\ invocations[i].pc = "not_cooled_down_respond"
    /\ \E io_ok \in BOOLEAN, overflow_checks \in BOOLEAN, sent \in BOOLEAN :
        LET cooldown == invocations[i].command.val.cooldown_secs
            remaining_cooldown ==
                get_remaining_cooldown(wall_clock, ReadLastUse(i, io_ok), cooldown)
        IN  End(i, IF remaining_cooldown.tag = "Overflow" /\ overflow_checks
                   THEN "panicked" ELSE "done",
                IF IsOk(remaining_cooldown) /\ sent
                THEN Respond("Cool down! You need to wait a bit more before using this command.",
                             Some(remaining_cooldown.val))
                ELSE IF remaining_cooldown.tag = "Overflow" /\ ~overflow_checks /\ sent
                THEN Respond("Cool down! You need to wait a bit more before using this command.",
                             Some(0))
                ELSE None,
                Unset)
    /\ UNCHANGED <<READY_TO_GO, wall_clock, command_executions>>
    /\ UNCHANGED outsideDispatch

\* handle_command_execution: command.execute(context, app_interaction).await,
\* whose result is only logged
Execute_RecordOnSuccessOnly(i) ==
    /\ invocations[i].pc = "execute"
    /\ \E ok \in BOOLEAN :
        IF ok
        THEN Become(i, [invocations[i] EXCEPT !.pc = "use_last", !.result = Ok("unit")])
        ELSE Become(i, [NoInvocation EXCEPT !.pc = "done",
                                            !.cooled_down = invocations[i].cooled_down,
                                            !.result = Err("execute")])
    /\ UNCHANGED <<READY_TO_GO, wall_clock, command_executions>>
    /\ UNCHANGED outsideDispatch

Execute(i) ==
    /\ invocations[i].pc = "execute"
    /\ \E ok \in BOOLEAN :
        Become(i, [invocations[i] EXCEPT
            !.pc = "use_last",
            !.result = IF ok THEN Ok("unit") ELSE Err("execute")])
    /\ UNCHANGED <<READY_TO_GO, wall_clock, command_executions>>
    /\ UNCHANGED outsideDispatch

NewCooldown(i) ==
    CooldownData(user_cmd_key_str(invocations[i].user, invocations[i].command.val.name),
                 invocations[i].timestamp)

\* let _ = use_last(..).await: now is read, then create_last_use awaits
\* new_cooldown.filter_one_by_self()
UseLast(i) ==
    /\ invocations[i].pc = "use_last"
    /\ \E io_ok \in BOOLEAN :
        LET key == user_cmd_key_str(invocations[i].user, invocations[i].command.val.name)
            new_cooldown == CooldownData(key, wall_clock)
        IN  IF ~io_ok
            THEN End(i, "done", None, Err("filter_one_by_self"))
            ELSE Become(i, [invocations[i] EXCEPT
                    !.timestamp = wall_clock,
                    !.pc = IF filter_one_by_self(command_executions, new_cooldown) = None
                           THEN "insert_one"
                           ELSE "update_entry"])
    /\ UNCHANGED <<READY_TO_GO, wall_clock, command_executions>>
    /\ UNCHANGED outsideDispatch

\* create_last_use: the branch taken when no document was found
InsertOne(i) ==
    /\ invocations[i].pc = "insert_one"
    /\ \E io_ok \in BOOLEAN :
        /\ command_executions' =
                IF io_ok THEN insert_one(command_executions, NewCooldown(i))
                ELSE command_executions
        /\ End(i, "done", None, IF io_ok THEN Ok("unit") ELSE Err("insert_one"))
    /\ UNCHANGED <<READY_TO_GO, wall_clock>>
    /\ UNCHANGED outsideDispatch

\* create_last_use: the branch taken when a document was found
UpdateEntry(i) ==
    /\ invocations[i].pc = "update_entry"
    /\ \E io_ok \in BOOLEAN :
        /\ command_executions' =
                IF io_ok THEN update_entry(command_executions, NewCooldown(i))
                ELSE command_executions
        /\ End(i, "done", None, IF io_ok THEN Ok("unit") ELSE Err("update_entry"))
    /\ UNCHANGED <<READY_TO_GO, wall_clock>>
    /\ UNCHANGED outsideDispatch

Step(i) ==
    \/ NotReadyRespond(i)
    \/ UnknownCommandRespond(i)
    \/ CooledDown(i)
    \/ NotCooledDownRespond(i)
    \/ Execute(i)
    \/ UseLast(i)
    \/ InsertOne(i)
    \/ UpdateEntry(i)

InitDispatch ==
    /\ guild = [owner_id |-> 1, topRole |-> [u \in Users |-> 0]]
    /\ ModerationIdle
    /\ DispatchIdle
    /\ PluginIdle
    /\ ValidationIdle

\* serenity runs every interaction_create in a task of its own
NextDispatch ==
    \/ AppearActive
    \/ Tick
    \/ \E i \in Invocations : InteractionCreate(i)
    \/ \E i \in Invocations : Step(i)

SpecDispatch == InitDispatch /\ [][NextDispatch]_vars

\* the users send one interaction at a time, each after the previous one ended
InteractionCreateSequential(i) ==
    /\ \A j \in Invocations : ~InFlight(j)
    /\ InteractionCreate(i)

NextSequential ==
    \/ AppearActive
    \/ Tick
    \/ \E i \in Invocations : InteractionCreateSequential(i)
    \/ \E i \in Invocations : Step(i)

SpecSequential == InitDispatch /\ [][NextSequential]_vars

\* SystemTime::now() is the wall clock, which is not monotonic: the host's
\* clock can be set to an earlier time between two reads
ClockSetBack ==
    /\ \E earlier \in Times :
        /\ earlier < wall_clock
        /\ wall_clock' = earlier
    /\ UNCHANGED <<READY_TO_GO, command_executions, invocations>>
    /\ UNCHANGED outsideDispatch

NextClock ==
    \/ AppearActive
    \/ Tick
    \/ ClockSetBack
    \/ \E i \in Invocations : InteractionCreateSequential(i)
    \/ \E i \in Invocations : Step(i)

SpecClock == InitDispatch /\ [][NextClock]_vars

\* every name and alias of the command table, and a name no command has
AllInvokedNames ==
    UNION {Range(get_all_names(all_commands[k])) : k \in 1..Len(all_commands)} \cup {"typo"}

\* one user invokes any name, one interaction at a time, within one instant
InteractionCreateAnyName(i) ==
    /\ \A j \in Invocations : ~InFlight(j)
    /\ \E user \in {1}, name \in AllInvokedNames : Dispatch(i, user, name)
    /\ UNCHANGED <<READY_TO_GO, wall_clock, command_executions>>
    /\ UNCHANGED outsideDispatch

NextResolve ==
    \/ AppearActive
    \/ \E i \in {1} : InteractionCreateAnyName(i)
    \/ \E i \in {1} : Step(i)

SpecResolve == InitDispatch /\ [][NextResolve]_vars

(* ============================== plugins ================================ *)
\* enum Plugin, in the order enum_iterator::all gives
all_plugins == <<"Moderation", "Information", "Plugins">>

default_plugins == <<"Information", "Moderation", "Plugins">>

non_default_plugins == SelectSeq(all_plugins, LAMBDA plugin : ~Contains(default_plugins, plugin))

is_default(plugin) == Contains(default_plugins, plugin)

get_commands(plugin) == SelectSeq(all_commands, LAMBDA metadata : metadata.plugin = plugin)

\* PluginData::find_all and PluginData::contains_entries
find_all(collection) == collection

contains_entries(collection) == collection # <<>>

\* the stored names chained with the default plugins, collected into a HashSet
get_enabled_plugins_StoredOnly(found) ==
    IF IsErr(found) THEN found ELSE Ok(Range(found.val))

get_enabled_plugins(found) ==
    IF IsErr(found) THEN found ELSE Ok(Range(found.val) \cup Range(default_plugins))

\* PluginData::enable_plugin: insert_one(PluginData::new(name))
PluginData_enable_plugin(collection, plugin) == Append(collection, plugin)

\* PluginData::disable_plugin: delete_one with the filter name = plugin
PluginData_disable_plugin(collection, plugin) ==
    LET found == {k \in 1..Len(collection) : collection[k] = plugin}
    IN  IF found = {} THEN collection
        ELSE SubSeq(collection, 1, FirstIndex(found) - 1)
                \o SubSeq(collection, FirstIndex(found) + 1, Len(collection))

\* the orders in which a HashSet of these plugins can be iterated
Orders(plugins) ==
    {order \in [1..Cardinality(plugins) -> plugins] :
        \A a, b \in 1..Cardinality(plugins) : a # b => order[a] # order[b]}

RECURSIVE commands_by_plugins(_)
commands_by_plugins(plugins) ==
    IF plugins = <<>> THEN <<>>
    ELSE get_commands(Head(plugins)) \o commands_by_plugins(Tail(plugins))

AlreadyEnabled(plugin) == Err(<<"Plugin ", plugin, " is already enabled for the current guild!">>)
AlreadyDisabled(plugin) == Err(<<"Plugin ", plugin, " is already disabled for the current guild!">>)

TaskFree(t) == plugin_tasks[t].pc \in {"idle", "done"}
StartingUp == \E t \in PluginTasks : plugin_tasks[t].op = "startup" /\ ~TaskFree(t)

Turn(t, task) == plugin_tasks' = [plugin_tasks EXCEPT ![t] = task]

\* the call of task t returns ret
Finish(t, returned) ==
    Turn(t, [plugin_tasks[t] EXCEPT !.pc = "done", !.todo = <<>>, !.ret = returned])

\* the bot starts: PluginData::prepare_data, then set_up_commands
Startup(t) ==
    /\ \A other \in PluginTasks : TaskFree(other)
    /\ Turn(t, [NoTask EXCEPT !.pc = "contains_entries", !.op = "startup"])
    /\ UNCHANGED <<enabled_plugins, guild_commands>>
    /\ UNCHANGED outsidePlugin

\* prepare_data: if Self::contains_entries().await? { return Ok(()) }
ContainsEntries(t) ==
    /\ plugin_tasks[t].pc = "contains_entries"
    /\ \E io_ok \in BOOLEAN :
        IF ~io_ok THEN Finish(t, Err(<<"contains_entries">>))
        ELSE IF contains_entries(enabled_plugins)
        THEN Turn(t, [plugin_tasks[t] EXCEPT !.pc = "set_application_commands"])
        ELSE Turn(t, [plugin_tasks[t] EXCEPT !.pc = "prepare_data", !.todo = default_plugins])
    /\ UNCHANGED <<enabled_plugins, guild_commands>>
    /\ UNCHANGED outsidePlugin

\* prepare_data: for plugin in Plugin::default_plugins() { Self::enable_plugin(plugin).await? }
PrepareData(t) ==
    /\ plugin_tasks[t].pc = "prepare_data"
    /\ \E io_ok \in BOOLEAN :
        IF ~io_ok
        THEN /\ Finish(t, Err(<<"insert_one">>))
             /\ UNCHANGED enabled_plugins
        ELSE /\ enabled_plugins' =
                    PluginData_enable_plugin(enabled_plugins, Head(plugin_tasks[t].todo))
             /\ Turn(t, [plugin_tasks[t] EXCEPT
                    !.todo = Tail(plugin_tasks[t].todo),
                    !.pc = IF Tail(plugin_tasks[t].todo) = <<>>
                           THEN "set_application_commands" ELSE "prepare_data"])
    /\ UNCHANGED guild_commands
    /\ UNCHANGED outsidePlugin

\* the commands /enable and /disable are served once the bot has started
Serving == (\E t \in PluginTasks : plugin_tasks[t].pc # "idle") /\ ~StartingUp

\* what PluginData::get_enabled_plugins().await returns
ReadEnabledPlugins(io_ok) ==
    get_enabled_plugins(IF io_ok THEN Ok(find_all(enabled_plugins)) ELSE Err(<<"find_all">>))

Names(commands) == {commands[k].name : k \in 1..Len(commands)}

\* enable_plugin(plugin, http): the enabled check, the registration of the
\* plugin's commands, PluginData::enable_plugin
enable_plugin_Unchecked(t, plugin) ==
    \E registered \in 0..Len(get_commands(plugin)), insert_ok \in BOOLEAN :
        LET call == [NoTask EXCEPT !.pc = "done", !.op = "enable", !.plugin = plugin]
        IN  /\ guild_commands' =
                    guild_commands \cup Names(SubSeq(get_commands(plugin), 1, registered))
            /\ enabled_plugins' =
                    IF registered = Len(get_commands(plugin)) /\ insert_ok
                    THEN PluginData_enable_plugin(enabled_plugins, plugin)
                    ELSE enabled_plugins
            /\ Turn(t, [call EXCEPT !.ret =
                    IF registered < Len(get_commands(plugin))
                    THEN Err(<<"create_application_command">>)
                    ELSE IF insert_ok THEN Ok("unit") ELSE Err(<<"insert_one">>)])

enable_plugin(t, plugin) ==
    \E io_ok \in BOOLEAN, registered \in 0..Len(get_commands(plugin)), insert_ok \in BOOLEAN :
        LET enabled == ReadEnabledPlugins(io_ok)
            call == [NoTask EXCEPT !.pc = "done", !.op = "enable", !.plugin = plugin]
        IN  IF IsErr(enabled)
            THEN /\ Turn(t, [call EXCEPT !.ret = enabled])
                 /\ UNCHANGED <<enabled_plugins, guild_commands>>
            ELSE IF plugin \in enabled.val
            THEN /\ Turn(t, [call EXCEPT !.ret = AlreadyEnabled(plugin)])
                 /\ UNCHANGED <<enabled_plugins, guild_commands>>
            ELSE /\ guild_commands' =
                        guild_commands \cup Names(SubSeq(get_commands(plugin), 1, registered))
                 /\ enabled_plugins' =
                        IF registered = Len(get_commands(plugin)) /\ insert_ok
                        THEN PluginData_enable_plugin(enabled_plugins, plugin)
                        ELSE enabled_plugins
                 /\ Turn(t, [call EXCEPT !.ret =
                        IF registered < Len(get_commands(plugin))
                        THEN Err(<<"create_application_command">>)
                        ELSE IF insert_ok THEN Ok("unit") ELSE Err(<<"insert_one">>)])

EnablePlugin(t) ==
    /\ TaskFree(t)
    /\ Serving
    /\ \E plugin \in Range(all_plugins) : enable_plugin(t, plugin)
    /\ UNCHANGED outsidePlugin

\* disable_plugin(plugin, context) up to PluginData::disable_plugin
DisablePlugin(t) ==
    /\ TaskFree(t)
    /\ Serving
    /\ \E plugin \in Range(all_plugins), io_ok \in BOOLEAN :
        LET enabled == ReadEnabledPlugins(io_ok)
            call == [NoTask EXCEPT !.op = "disable", !.plugin = plugin]
        IN  IF IsErr(enabled)
            THEN Turn(t, [call EXCEPT !.pc = "done", !.ret = enabled])
            ELSE IF plugin \notin enabled.val
            THEN Turn(t, [call EXCEPT !.pc = "done", !.ret = AlreadyDisabled(plugin)])
            ELSE Turn(t, [call EXCEPT !.pc = "delete_one"])
    /\ UNCHANGED <<enabled_plugins, guild_commands>>
    /\ UNCHANGED outsidePlugin

DeleteOne_NoResync(t) ==
    /\ plugin_tasks[t].pc = "delete_one"
    /\ \E io_ok \in BOOLEAN :
        IF ~io_ok
        THEN /\ Finish(t, Err(<<"delete_one">>))
             /\ UNCHANGED enabled_plugins
        ELSE /\ enabled_plugins' =
                    PluginData_disable_plugin(enabled_plugins, plugin_tasks[t].plugin)
             /\ Finish(t, Ok("unit"))
    /\ UNCHANGED guild_commands
    /\ UNCHANGED outsidePlugin

\* PluginData::disable_plugin(plugin).await?
DeleteOne(t) ==
    /\ plugin_tasks[t].pc = "delete_one"
    /\ \E io_ok \in BOOLEAN :
        IF ~io_ok
        THEN /\ Finish(t, Err(<<"delete_one">>))
             /\ UNCHANGED enabled_plugins
        ELSE /\ enabled_plugins' =
                    PluginData_disable_plugin(enabled_plugins, plugin_tasks[t].plugin)
             /\ Turn(t, [plugin_tasks[t] EXCEPT !.pc = "set_application_commands"])
    /\ UNCHANGED guild_commands
    /\ UNCHANGED outsidePlugin

SetApplicationCommands_Rollback(t) ==
    /\ plugin_tasks[t].pc = "set_application_commands"
    /\ \E ok \in BOOLEAN :
        IF ~ok
        THEN /\ Finish(t, Err(<<"set_application_commands">>))
             /\ enabled_plugins' =
                    IF plugin_tasks[t].op = "disable"
                    THEN PluginData_enable_plugin(enabled_plugins, plugin_tasks[t].plugin)
                    ELSE enabled_plugins
             /\ UNCHANGED guild_commands
        ELSE /\ guild_commands' = {}
             /\ Turn(t, [plugin_tasks[t] EXCEPT !.pc = "get_guild_commands"])
             /\ UNCHANGED enabled_plugins
    /\ UNCHANGED outsidePlugin

\* set_up_commands: set_application_commands(vec![]).await?
SetApplicationCommands(t) ==
    /\ plugin_tasks[t].pc = "set_application_commands"
    /\ \E ok \in BOOLEAN :
        IF ~ok
        THEN /\ Finish(t, Err(<<"set_application_commands">>))
             /\ UNCHANGED guild_commands
        ELSE /\ guild_commands' = {}
             /\ Turn(t, [plugin_tasks[t] EXCEPT !.pc = "get_guild_commands"])
    /\ UNCHANGED enabled_plugins
    /\ UNCHANGED outsidePlugin

\* set_up_commands: get_guild_commands().await?
GetGuildCommands(t) ==
    /\ plugin_tasks[t].pc = "get_guild_commands"
    /\ \E io_ok \in BOOLEAN :
        IF ~io_ok
        THEN Finish(t, ReadEnabledPlugins(FALSE))
        ELSE \E order \in Orders(ReadEnabledPlugins(TRUE).val) :
                Turn(t, [plugin_tasks[t] EXCEPT !.pc = "register_commands",
                                                !.todo = commands_by_plugins(order)])
    /\ UNCHANGED <<enabled_plugins, guild_commands>>
    /\ UNCHANGED outsidePlugin

RegisterCommands_PrimaryOnly(t) ==
    /\ plugin_tasks[t].pc = "register_commands"
    /\ \E registered \in BOOLEAN :
        /\ guild_commands' =
                IF registered THEN guild_commands \cup {Head(plugin_tasks[t].todo).name}
                ELSE guild_commands
        /\ IF ~registered
           THEN Finish(t, Err(<<"create_application_command">>))
           ELSE IF Tail(plugin_tasks[t].todo) = <<>>
           THEN Finish(t, Ok("unit"))
           ELSE Turn(t, [plugin_tasks[t] EXCEPT !.todo = Tail(plugin_tasks[t].todo)])
    /\ UNCHANGED enabled_plugins
    /\ UNCHANGED outsidePlugin

\* register_commands: command.register_to_guild(http, cache).await? for the
\* next command, one create_application_command per name of the command
RegisterCommands(t) ==
    /\ plugin_tasks[t].pc = "register_commands"
    /\ LET names == get_all_names(Head(plugin_tasks[t].todo))
       IN  \E registered \in 0..Len(names) :
            /\ guild_commands' = guild_commands \cup {names[k] : k \in 1..registered}
            /\ IF registered < Len(names)
               THEN Finish(t, Err(<<"create_application_command">>))
               ELSE IF Tail(plugin_tasks[t].todo) = <<>>
               THEN Finish(t, Ok("unit"))
               ELSE Turn(t, [plugin_tasks[t] EXCEPT !.todo = Tail(plugin_tasks[t].todo)])
    /\ UNCHANGED enabled_plugins
    /\ UNCHANGED outsidePlugin

InitPlugin ==
    /\ guild = [owner_id |-> 1, topRole |-> [u \in Users |-> 0]]
    /\ ModerationIdle
    /\ DispatchIdle
    /\ PluginIdle
    /\ ValidationIdle

NextPlugin ==
    \E t \in {1} :
        \/ Startup(t)
        \/ ContainsEntries(t)
        \/ PrepareData(t)
        \/ EnablePlugin(t)
        \/ DisablePlugin(t)
        \/ DeleteOne(t)
        \/ SetApplicationCommands(t)
        \/ GetGuildCommands(t)
        \/ RegisterCommands(t)

SpecPlugin == InitPlugin /\ [][NextPlugin]_vars

\* one task serves /enable while another starts the bot and serves /disable:
\* every invocation is a task of its own, and nothing excludes the two
NextPluginConcurrent ==
    \/ Startup(2)
    \/ ContainsEntries(2)
    \/ PrepareData(2)
    \/ EnablePlugin(1)
    \/ DisablePlugin(2)
    \/ DeleteOne(2)
    \/ SetApplicationCommands(2)
    \/ GetGuildCommands(2)
    \/ RegisterCommands(2)

SpecPluginConcurrent == InitPlugin /\ [][NextPluginConcurrent]_vars

\* two tasks serve /enable at once, with nothing to exclude two calls for
\* the same plugin; the second one also starts the bot and serves /disable
NextPluginRace ==
    \/ EnablePlugin(1)
    \/ \E t \in {2} :
        \/ Startup(t)
        \/ ContainsEntries(t)
        \/ PrepareData(t)
        \/ EnablePlugin(t)
        \/ DisablePlugin(t)
        \/ DeleteOne(t)
        \/ SetApplicationCommands(t)
        \/ GetGuildCommands(t)
        \/ RegisterCommands(t)

SpecPluginRace == InitPlugin /\ [][NextPluginRace]_vars

(* ======================= ValidatedOptions ============================== *)
(* bot/core/command/validate.rs. A string is a tuple of one-character      *)
(* strings. A CommandDataOption is its name and its resolved value.        *)
ValidatedOptions(dates, durations, guild_members) ==
    [dates |-> dates, durations |-> durations, guild_members |-> guild_members]

String(string) == Some([kind |-> "String", val |-> string])
Integer(n) == Some([kind |-> "Integer", int |-> n])
\* CommandDataOptionValue::User(user, member): member is None for a user
\* who is not a member of the guild
User(user_id, member) == Some([kind |-> "User", user |-> user_id, member |-> member])
CommandDataOption(name, resolved) == [name |-> name, resolved |-> resolved]

NotDate(string) == [error |-> "NotDate", val |-> string]
NotDuration(string) == [error |-> "NotDuration", val |-> string]
DurationTooLong(string) == [error |-> "DurationTooLong", val |-> string]
NotGuildMember(user_id) == [error |-> "NotGuildMember", id |-> user_id]

DigitValue(c) ==
    CASE c = "0" -> 0 [] c = "1" -> 1 [] c = "2" -> 2 [] c = "3" -> 3 [] c = "4" -> 4
      [] c = "5" -> 5 [] c = "6" -> 6 [] c = "7" -> 7 [] c = "8" -> 8 [] c = "9" -> 9
      [] OTHER -> -1

RECURSIVE Number(_)
Number(digits) ==
    IF digits = <<>> THEN 0
    ELSE 10 * Number(SubSeq(digits, 1, Len(digits) - 1)) + DigitValue(digits[Len(digits)])

\* time::Duration, kept as whole days and the seconds of the last day
Duration(days, seconds) ==
    [days |-> days + seconds \div (24 * 60 * 60), secs |-> seconds % (24 * 60 * 60)]
Duration_days(days) == Duration(days, 0)
Plus(a, b) == Duration(a.days + b.days, a.secs + b.secs)
Longer(a, b) == a.days > b.days \/ (a.days = b.days /\ a.secs > b.secs)

Units(n, unit) ==
    CASE unit = "s" -> Duration(0, n)
      [] unit = "m" -> Duration(0, n * 60)
      [] unit = "h" -> Duration(0, n * 60 * 60)
      [] unit = "d" -> Duration(n, 0)
      [] unit = "w" -> Duration(7 * n, 0)
      [] unit = "y" -> Duration(365 * n, 0)

\* duration_str::parse_time for expressions made of digits and the units
\* s, m, h, d, w, y: a sum of <number><unit> terms, a number without a unit
\* counting as seconds
RECURSIVE ParseTerms(_, _, _, _)
ParseTerms(string, k, digits, total) ==
    IF k > Len(string)
    THEN IF digits = <<>> THEN Ok(total) ELSE Ok(Plus(total, Units(Number(digits), "s")))
    ELSE IF DigitValue(string[k]) >= 0 THEN ParseTerms(string, k + 1, Append(digits, string[k]), total)
    ELSE IF string[k] \in {"s", "m", "h", "d", "w", "y"} /\ digits # <<>>
    THEN ParseTerms(string, k + 1, <<>>, Plus(total, Units(Number(digits), string[k])))
    ELSE Err(<<"parse_time">>)

parse_time(string) ==
    IF string = <<>> \/ DigitValue(string[1]) < 0 THEN Err(<<"parse_time">>)
    ELSE ParseTerms(string, 1, <<>>, Duration(0, 0))

days_in_year_month(year, month) ==
    CASE month \in {1, 3, 5, 7, 8, 10, 12} -> 31
      [] month \in {4, 6, 9, 11} -> 30
      [] month = 2 -> IF year % 4 = 0 /\ (year % 100 # 0 \/ year % 400 = 0) THEN 29 ELSE 28
      [] OTHER -> 0

\* Date::parse(string, &Iso8601::PARSING) for a calendar date YYYY-MM-DD
Date_parse(string) ==
    IF /\ Len(string) = 10
       /\ string[5] = "-"
       /\ string[8] = "-"
       /\ \A k \in {1, 2, 3, 4, 6, 7, 9, 10} : DigitValue(string[k]) >= 0
    THEN LET year == Number(SubSeq(string, 1, 4))
             month == Number(SubSeq(string, 6, 7))
             day == Number(SubSeq(string, 9, 10))
         IN  IF day >= 1 /\ day <= days_in_year_month(year, month)
             THEN Ok([year |-> year, month |-> month, day |-> day])
             ELSE Err(<<"Date::parse">>)
    ELSE Err(<<"Date::parse">>)

Tagged(names, opts) == SelectSeq(opts, LAMBDA option : Contains(names, option.name))

RECURSIVE CheckDates(_)
CheckDates(date_options) ==
    IF date_options = <<>> THEN Ok("unit")
    ELSE LET option == Head(date_options)
         IN  IF option.resolved # None /\ option.resolved.val.kind = "String"
             THEN IF IsErr(Date_parse(option.resolved.val.val))
                  THEN Err(NotDate(option.resolved.val.val))
                  ELSE CheckDates(Tail(date_options))
             ELSE Err(NotDate(<<"not a string">>))

validate_dates(self, opts) ==
    IF self.dates = <<>> THEN Ok("unit") ELSE CheckDates(Tagged(self.dates, opts))

\* let one_month = 28 * 24 * 60 * 60; if duration > Duration::days(one_month)
RECURSIVE CheckDurations(_)
CheckDurations(duration_options) ==
    IF duration_options = <<>> THEN Ok("unit")
    ELSE LET option == Head(duration_options)
         IN  IF option.resolved # None /\ option.resolved.val.kind = "String"
             THEN LET duration == parse_time(option.resolved.val.val)
                      one_month == 28 * 24 * 60 * 60
                  IN  IF IsErr(duration)
                      THEN Err(NotDuration(option.resolved.val.val))
                      ELSE IF Longer(duration.val, Duration_days(one_month))
                      THEN Err(DurationTooLong(option.resolved.val.val))
                      ELSE CheckDurations(Tail(duration_options))
             ELSE Err(NotDuration(<<"not a string">>))

validate_durations(self, opts) ==
    IF self.durations = <<>> THEN Ok("unit")
    ELSE CheckDurations(Tagged(self.durations, opts))

RECURSIVE CheckGuildMembers(_)
CheckGuildMembers(guild_member_options) ==
    IF guild_member_options = <<>> THEN Ok("unit")
    ELSE LET option == Head(guild_member_options)
         IN  IF /\ option.resolved # None
                /\ option.resolved.val.kind = "User"
                /\ option.resolved.val.member = None
             THEN Err(NotGuildMember(option.resolved.val.user))
             ELSE CheckGuildMembers(Tail(guild_member_options))

validate_guild_members(self, opts) ==
    IF self.guild_members = <<>> THEN Ok("unit")
    ELSE CheckGuildMembers(Tagged(self.guild_members, opts))

\* self.validate_dates(options)?; self.validate_durations(options)?;
\* self.validate_guild_members(options)?; Ok(())
validate(self, opts) ==
    IF IsErr(validate_dates(self, opts)) THEN validate_dates(self, opts)
    ELSE IF IsErr(validate_durations(self, opts)) THEN validate_durations(self, opts)
    ELSE IF IsErr(validate_guild_members(self, opts)) THEN validate_guild_members(self, opts)
    ELSE Ok("unit")

\* the ValidatedOptions built by /ban and /timeout, and one with every tag
TaggedOptions ==
    { ValidatedOptions(<<>>, <<>>, <<"member", "banish">>),
      ValidatedOptions(<<>>, <<"duration">>, <<"member">>),
      ValidatedOptions(<<"date">>, <<"duration">>, <<"member">>) }

DateValues ==
    { String(<<"2", "0", "2", "3", "-", "0", "2", "-", "2", "8">>),
      String(<<"2", "0", "2", "3", "-", "0", "2", "-", "3", "0">>),
      Integer(20230228) }
DurationValues ==
    { String(<<"2", "8", "d">>), String(<<"2", "9", "d">>), String(<<"4", "w">>),
      String(<<"2", "h", "3", "0", "m">>), String(<<"s", "o", "o", "n">>), Integer(30) }
MemberValues == { User(2, Some("member")), User(3, None) }

OptionsOf(name, values) == {<<>>} \cup {<<CommandDataOption(name, v)>> : v \in values}

\* an option list holds each option at most once; Discord sends them in the
\* order of the command's declaration, which the commands are free to choose
OptionLists ==
    UNION {{date \o duration \o member, member \o duration \o date} :
            date \in OptionsOf("date", DateValues),
            duration \in OptionsOf("duration", DurationValues),
            member \in OptionsOf("member", MemberValues)}

InitValidate ==
    /\ guild = [owner_id |-> 1, topRole |-> [u \in Users |-> 0]]
    /\ ModerationIdle
    /\ DispatchIdle
    /\ PluginIdle
    /\ validated_options \in TaggedOptions
    /\ options \in OptionLists
    /\ validation = Unset

\* command.validate(options)
Validate ==
    /\ validation = Unset
    /\ validation' = validate(validated_options, options)
    /\ UNCHANGED <<validated_options, options>>
    /\ UNCHANGED outsideValidation

SpecValidate == InitValidate /\ [][Validate]_vars

\* self.metadata().validated_options of the commands of the table: /ban
\* tags "member" and "banish" as guild members, the others tag nothing
validated_options_of(metadata) ==
    IF metadata.name = "ban"
    THEN ValidatedOptions(<<>>, <<>>, <<"member", "banish">>)
    ELSE ValidatedOptions(<<>>, <<>>, <<>>)

InitOptions ==
    /\ guild = [owner_id |-> 1, topRole |-> [u \in Users |-> 0]]
    /\ ModerationIdle
    /\ DispatchIdle
    /\ PluginIdle
    /\ validated_options = ValidatedOptions(<<>>, <<>>, <<>>)
    /\ options \in OptionsOf("member", MemberValues)
    /\ validation = Unset

\* run_application_command on an interaction that carries no option, a member
\* of the guild, or a user who is not in the guild
SpecOptions == InitOptions /\ [][NextResolve]_vars

(* ======================= properties of moderate ======================== *)
Moderator == interaction.user
Member == params.user
Position(u) == RolePosition(guild.topRole[u])
TargetIsBot == lookups.fetched = Ok(TRUE)
Assessed == eligibility # Unset
Finished == pc = "done"
LookupsSucceeded ==
    /\ lookups # Unset
    /\ lookups.guild_cached # None
    /\ IsOk(lookups.fetched)
IssuedCalls(kinds) == {i \in 1..Len(calls) : calls[i].call \in kinds}
AllStages == <<"acknowledge", "assess", "notify", "action", "report">>
IsPrefix(s, t) == Len(s) <= Len(t) /\ \A i \in 1..Len(s) : s[i] = t[i]
InStages(st) == \E i \in 1..Len(stages) : stages[i] = st
NotificationFailedReported ==
    \E i \in 1..Len(reports) :
        /\ reports[i].kind = "Warn"
        /\ reports[i].title = <<"**", "Notification failed!", "**">>

\* C1: a platform action (ban, kick or timeout) is issued only in an invocation
\* whose assess returned Eligible; after an assessment error or a non-Eligible
\* verdict no platform action call exists.
C1_ActionOnlyIfEligible ==
    IssuedCalls(PlatformActions) # {} => eligibility = Ok("Eligible")

C1_Witness ==
    /\ Finished
    /\ IsOk(eligibility)
    /\ eligibility.val # "Eligible"
    /\ ret = Ok("unit")
    /\ IssuedCalls(PlatformActions) = {}

\* C2: the DM to the target is attempted only if assess returned Eligible; on an
\* assessment error or a non-Eligible verdict the notify stage is not entered and
\* no DM call is made.
C2_DmOnlyIfEligible ==
    (InStages("notify") \/ IssuedCalls({"dm"}) # {}) => eligibility = Ok("Eligible")

C2_Witness ==
    /\ Finished
    /\ IsErr(eligibility)
    /\ Len(reports) = 2
    /\ IssuedCalls({"dm"}) = {}

\* C3: the stages entered by one invocation are always an initial part of
\* acknowledgement, assess, target DM attempt, platform action, final report:
\* in that order, none before its predecessor, none skipped, none twice;
\* moderate is positioned right after the last stage it entered, and an
\* eligible invocation that is not cut short at the notification stage (its
\* report undeliverable, or the guild gone from the cache) ends with all five.
C3_StagesInOrder ==
    /\ IsPrefix(stages, AllStages)
    /\ (/\ Finished
        /\ eligibility = Ok("Eligible")
        /\ ret \notin {Err("create_followup_message"), [tag |-> "Panic"]}) =>
            stages = AllStages
    /\ pc = "assess" => stages = SubSeq(AllStages, 1, 1)
    /\ pc \in {"assessment_failed", "ineligible", "notify"} => stages = SubSeq(AllStages, 1, 2)
    /\ pc = "notification_results" => stages = SubSeq(AllStages, 1, 3)
    /\ pc = "action" => stages = SubSeq(AllStages, 1, 3)
    /\ pc = "action_results" => stages = SubSeq(AllStages, 1, 4)

C3_Witness ==
    /\ Finished
    /\ stages = AllStages

\* C4: a failed DM does not abort moderate: the failure goes to the
\* notification report, and once that report is delivered as a
\* "Notification failed!" warning the platform action and the final report
\* are carried out; the only abort after a failed DM is a failure to deliver
\* the notification report itself.
C4_DmFailureDoesNotAbort ==
    (IsErr(dm_result) /\ Finished) =>
        \/ /\ ret = Err("create_followup_message")
           /\ ~NotificationFailedReported
        \/ /\ NotificationFailedReported
           /\ IssuedCalls(PlatformActions) # {}
           /\ InStages("action")
           /\ InStages("report")

C4_Witness ==
    /\ Finished
    /\ IsErr(dm_result)
    /\ NotificationFailedReported
    /\ IssuedCalls(PlatformActions) # {}
    /\ stages = AllStages
    /\ ret = Ok("unit")

\* C5: for an actor that is not the target, a non-bot target that is the guild
\* owner is assessed as ServerOwner (target is guild owner), never as
\* LowerHierarchy (target outranks actor).
C5_OwnerTargetIsServerOwner ==
    (/\ Assessed
     /\ LookupsSucceeded
     /\ Moderator # Member
     /\ ~TargetIsBot
     /\ Member = guild.owner_id) => eligibility = Ok("ServerOwner")

C5_Witness ==
    /\ Assessed
    /\ LookupsSucceeded
    /\ Moderator # Member
    /\ ~TargetIsBot
    /\ Member = guild.owner_id
    /\ Position(Member) > Position(Moderator)
    /\ eligibility = Ok("ServerOwner")

\* C6: for a non-owner actor and a target that is not the actor, not a bot and
\* not the guild owner, a target position greater than or equal to the actor's
\* makes assess yield LowerHierarchy (target outranks actor), and neither a
\* platform timeout call nor a DM is made.
C6_OutrankingTargetIsLowerHierarchy ==
    (/\ Assessed
     /\ LookupsSucceeded
     /\ Moderator # guild.owner_id
     /\ Moderator # Member
     /\ ~TargetIsBot
     /\ Member # guild.owner_id
     /\ Position(Member) >= Position(Moderator)) =>
        /\ eligibility = Ok("LowerHierarchy")
        /\ IssuedCalls(PlatformActions \cup {"dm"}) = {}

\* C7: a non-owner actor positioned strictly above a target that is neither
\* the actor, nor a bot, nor the guild owner is assessed as Eligible.
C7_HigherActorIsEligible ==
    (/\ Assessed
     /\ LookupsSucceeded
     /\ Moderator # guild.owner_id
     /\ Moderator # Member
     /\ ~TargetIsBot
     /\ Member # guild.owner_id
     /\ Position(Moderator) > Position(Member)) => eligibility = Ok("Eligible")

C9_BotTargetIsBotUser ==
    (/\ Assessed
     /\ LookupsSucceeded
     /\ Moderator # Member
     /\ TargetIsBot) => eligibility = Ok("BotUser")

C9_Witness ==
    /\ Assessed
    /\ LookupsSucceeded
    /\ Moderator # Member
    /\ TargetIsBot
    /\ Moderator # guild.owner_id
    /\ Position(Member) > Position(Moderator)
    /\ eligibility = Ok("BotUser")

OwnerModeratesNormalMember ==
    /\ Assessed
    /\ LookupsSucceeded
    /\ Moderator = guild.owner_id
    /\ Moderator # Member
    /\ ~TargetIsBot

BanWithReason ==
    /\ action = "Ban"
    /\ interaction.reason # None
    /\ params.duration = None

SuccessReported ==
    /\ Finished
    /\ InStages("report")
    /\ IsOk(action_result)
    /\ ret = Ok("unit")

\* the eligible ban of C10 up to the report's Action field, whose value is
\* the parameter
OwnerBanReport(action_field) ==
    /\ OwnerModeratesNormalMember =>
            /\ eligibility = Ok("Eligible")
            /\ pc \notin {"assessment_failed", "ineligible"}
    /\ (OwnerModeratesNormalMember /\ BanWithReason /\ InStages("action")) =>
            /\ InStages("notify")
            /\ calls[Len(calls)] = [call |-> "ban", user |-> Member,
                                    reason |-> interaction.reason.val, until |-> None]
            /\ Cardinality(IssuedCalls(PlatformActions)) = 1
    /\ (OwnerModeratesNormalMember /\ BanWithReason /\ SuccessReported) =>
            /\ reports[Len(reports)].fields.Action = Some(action_field)
            /\ reports[Len(reports)].fields.Reason = Some(interaction.reason.val)
            /\ reports[Len(reports)].fields.Duration = Some(<<"Not applicable">>)

\* C10 as stated: the guild owner is Eligible to moderate any normal member; a
\* ban with reason r and no duration attempts the DM, issues the ban call with
\* reason r, and reports action "ban", reason r, duration "Not applicable".
C10_OwnerBanReportsLowercaseBan == OwnerBanReport(<<"b", "a", "n">>)

\* C10 amended: as above, with the success report's Action field being the
\* capitalised verb "Ban".
C10_OwnerBanReportsBan == OwnerBanReport(<<"B", "a", "n">>)

C10_Witness ==
    /\ OwnerModeratesNormalMember
    /\ BanWithReason
    /\ SuccessReported
    /\ Position(Member) > Position(Moderator)
    /\ IsErr(dm_result)
    /\ reports[Len(reports)].fields.Action = Some(<<"B", "a", "n">>)
    /\ reports[Len(reports)].fields.Reason = Some("spam")

\* C11: when the platform action of an eligible invocation fails, the failure
\* is kept as a value and moderate goes on to the final report (stage 5); the
\* report, when it is delivered, is an error report whose Cause is the kept
\* failure and whose text names the verb of the action that failed.
C11_ActionFailureIsReported ==
    /\ pc = "action_results" => action_result # Unset
    /\ IsErr(action_result) =>
            /\ eligibility = Ok("Eligible")
            /\ InStages("action")
            /\ pc \in {"action_results", "done"}
    /\ (IsErr(action_result) /\ Finished) =>
            /\ InStages("report")
            /\ ret \in {Ok("unit"), Err("edit_original_interaction_response")}
    /\ (IsErr(action_result) /\ Finished /\ ret = Ok("unit")) =>
            /\ reports[Len(reports)].kind = "Error"
            /\ reports[Len(reports)].fields.Cause = Some(action_result.why)
            /\ reports[Len(reports)].description =
                    <<"The bot failed to ", get_moderation_verb(action), " ",
                      mention(Member), ".">>

C11_Witness ==
    /\ Finished
    /\ action = "Kick"
    /\ action_result = Err("platform")
    /\ stages = AllStages
    /\ reports[Len(reports)].kind = "Error"
    /\ reports[Len(reports)].description[2] = <<"k", "i", "c", "k">>

\* C12: moderate returns success only when the platform action succeeded, and
\* returns an error whenever assess failed, the verdict was not Eligible, or the
\* platform action failed.
C12_SuccessOnlyIfActionSucceeded ==
    /\ (Finished /\ IsOk(ret)) => (action_result # Unset /\ IsOk(action_result))
    /\ (Finished /\ eligibility # Unset /\ IsErr(eligibility)) => IsErr(ret)
    /\ (Finished /\ eligibility # Unset /\ IsOk(eligibility)
            /\ eligibility.val # "Eligible") => IsErr(ret)
    /\ (Finished /\ action_result # Unset /\ IsErr(action_result)) => IsErr(ret)

Key(i) == user_cmd_key_str(invocations[i].user, invocations[i].command.val.name)
Records(key) ==
    {j \in 1..Len(command_executions) : command_executions[j].name_and_user = key}
HasRecord(key) == Records(key) # {}
RecordedTime(key) == command_executions[CHOOSE j \in Records(key) : TRUE].timestamp
Cooldowns == {all_commands[k].cooldown_secs : k \in 1..Len(all_commands)}
At(i, position) == invocations[i].pc = position
Executed(i) == invocations[i].result # Unset
CooldownResponse(seconds_left) ==
    Some([error |-> "Cool down! You need to wait a bit more before using this command.",
          seconds_left |-> Some(seconds_left)])

\* the wait the specification prescribes after elapsed seconds out of c
Wait(c, elapsed) == IF elapsed < c THEN c - elapsed ELSE 0

\* the wait prescribed for invocation i in the current state
WaitOf(i) ==
    IF HasRecord(Key(i))
    THEN Wait(invocations[i].command.val.cooldown_secs, wall_clock - RecordedTime(Key(i)))
    ELSE 0

RemainingAsComputed ==
    /\ \A c \in Cooldowns, now \in Times :
        /\ get_remaining_cooldown(now, Ok(None), c) = Ok(0)
        /\ \A t \in Times :
            t <= now => get_remaining_cooldown(now, Ok(Some(t)), c) = Ok(Wait(c, now - t))

RemainingAsUsed ==
    \A i \in Invocations :
        /\ (At(i, "cooled_down") /\ invocations'[i].pc = "execute") => WaitOf(i) = 0
        /\ (At(i, "cooled_down") /\ invocations'[i].pc = "not_cooled_down_respond") =>
                WaitOf(i) > 0
        /\ (At(i, "not_cooled_down_respond") /\ invocations'[i].response # None) =>
                invocations'[i].response = CooldownResponse(WaitOf(i))

\* C14: for a cooldown c >= 0, a recorded last use t and a current time
\* now >= t, get_remaining_cooldown gives c - (now - t) when now - t < c and 0
\* when now - t >= c, and 0 when the key has no record; the dispatcher's
\* cooldown check and its "s left" response use exactly that value.
C14_RemainingCooldown == []RemainingAsComputed /\ [][RemainingAsUsed]_vars

C14_Witness ==
    \E i \in Invocations :
        /\ At(i, "done")
        /\ ~Executed(i)
        /\ invocations[i].response = CooldownResponse(3)
        /\ wall_clock = 2

DocsOf(collection, key) == SelectSeq(collection, LAMBDA data : data.name_and_user = key)
AllKeys ==
    {user_cmd_key_str(user, all_commands[k].name) :
        user \in Executioners, k \in 1..Len(all_commands)}
RecordUseCompletes(i) ==
    /\ At(i, "insert_one") \/ At(i, "update_entry")
    /\ invocations'[i].recorded = Ok("unit")

UpsertStep ==
    /\ \A i \in Invocations :
        RecordUseCompletes(i) =>
            /\ get_last_use(command_executions', invocations[i].user,
                            invocations[i].command.val.name) = Some(invocations[i].timestamp)
            /\ Len(DocsOf(command_executions', Key(i))) = 1
            /\ \A key \in AllKeys \ {Key(i)} :
                DocsOf(command_executions', key) = DocsOf(command_executions, key)
    /\ \A key \in AllKeys :
        Len(DocsOf(command_executions, key)) <= Len(DocsOf(command_executions', key))

OneRecordPerKey ==
    \A key \in AllKeys : Len(DocsOf(command_executions, key)) <= 1

\* C15: use_last / create_last_use is an upsert: when it completes for
\* (user, command) with timestamp t, the stored last use of that key is t
\* whether or not a record existed, the records of all other keys are as
\* before, and with invocations run one after the other every key that was
\* ever recorded has exactly one record.
C15_RecordUseIsUpsert == [][UpsertStep]_vars /\ []OneRecordPerKey

C15_Witness ==
    /\ Len(command_executions) = 2
    /\ command_executions[1].name_and_user # command_executions[2].name_and_user
    /\ command_executions[1].timestamp = MaxTime
    /\ command_executions[2].timestamp = 0
    /\ \E i \in Invocations : At(i, "done") /\ invocations[i].recorded = Ok("unit")

\* C16: the cooldown check fails closed: when the store read made by
\* cooled_down fails, the invocation ends there (the unwrap panics its task):
\* execute is never called for it, nothing is sent and nothing is recorded;
\* execute is only ever entered from a cooldown check that returned Ok(true).
C16_CooldownCheckFailsClosed ==
    \A i \in Invocations :
        /\ (invocations[i].cooled_down # Unset /\ IsErr(invocations[i].cooled_down)) =>
                /\ At(i, "panicked")
                /\ ~Executed(i)
                /\ invocations[i].response = None
                /\ invocations[i].recorded = Unset
        /\ (At(i, "execute") \/ Executed(i)) => invocations[i].cooled_down = Ok(TRUE)

C16_Witness ==
    \E i \in Invocations :
        /\ At(i, "panicked")
        /\ invocations[i].cooled_down = Err("find_one")
        /\ ~Executed(i)
        /\ HasRecord(user_cmd_key_str(1, "ban"))

RejectedByCooldown(i) == invocations[i].cooled_down = Ok(FALSE)
Moves(i) == invocations'[i] # invocations[i]
WithinCooldown(i) ==
    /\ At(i, "cooled_down")
    /\ invocations[i].command.val.cooldown_secs > 0
    /\ HasRecord(Key(i))
    /\ RecordedTime(Key(i)) <= wall_clock
    /\ wall_clock - RecordedTime(Key(i)) < invocations[i].command.val.cooldown_secs

RateLimitStep ==
    \A i \in Invocations :
        /\ (WithinCooldown(i) /\ Moves(i)) =>
                \/ invocations'[i].pc = "not_cooled_down_respond"
                        /\ invocations'[i].cooled_down = Ok(FALSE)
                \/ invocations'[i].pc = "panicked"
        /\ (At(i, "not_cooled_down_respond") /\ Moves(i)) =>
                /\ invocations'[i].pc = "done"
                /\ \/ invocations'[i].response = None
                   \/ invocations'[i].response = CooldownResponse(WaitOf(i))
                /\ UNCHANGED command_executions

RejectedNeverExecutes ==
    \A i \in Invocations :
        RejectedByCooldown(i) =>
            /\ ~Executed(i)
            /\ At(i, "not_cooled_down_respond") \/ At(i, "done")
            /\ invocations[i].recorded = Unset

\* C17: with invocations run one after the other, once a use of a command
\* with cooldown c > 0 by user u is recorded at time t, an invocation of the
\* same command by u whose cooldown check runs at a time now with
\* t <= now and now - t < c takes the rejection branch: it is never executed
\* and records nothing, and the response it sends is the "Cool down!" response
\* with the seconds left (its task ends without one only when the store read
\* or the sending fails).
C17_SequentialRateLimit == [][RateLimitStep]_vars /\ []RejectedNeverExecutes

C17_Witness ==
    \E i, j \in Invocations :
        /\ i # j
        /\ At(j, "done") /\ Executed(j) /\ invocations[j].recorded = Ok("unit")
        /\ At(i, "done") /\ RejectedByCooldown(i) /\ ~Executed(i)
        /\ invocations[i].response = CooldownResponse(3)
        /\ Len(command_executions) = 1

StoreWrittenOnlyAfterExecute ==
    /\ \A i \in Invocations :
        (At(i, "cooled_down") /\ Moves(i)) => UNCHANGED command_executions
    /\ command_executions' # command_executions =>
        \E i \in Invocations :
            /\ At(i, "insert_one") \/ At(i, "update_entry")
            /\ invocations[i].cooled_down = Ok(TRUE)
            /\ Executed(i)
            /\ invocations'[i].pc = "done"

\* C18: the cooldown check only reads the store, and the use is written by a
\* later step of the invocation, after execute has returned; so two
\* invocations of the same throttled command by the same user can both
\* observe "ready" and both execute before either has recorded its use.
C18_CheckThenRecord == [][StoreWrittenOnlyAfterExecute]_vars

C18_Witness ==
    \E i, j \in Invocations :
        /\ i # j
        /\ At(i, "use_last") /\ At(j, "use_last")
        /\ Executed(i) /\ Executed(j)
        /\ invocations[i].cooled_down = Ok(TRUE)
        /\ invocations[j].cooled_down = Ok(TRUE)
        /\ Key(i) = Key(j)
        /\ invocations[i].command.val.cooldown_secs > 0
        /\ ~HasRecord(Key(i))

RecordsKept ==
    \A key \in AllKeys :
        DocsOf(command_executions, key) # <<>> => DocsOf(command_executions', key) # <<>>

ExecutedThenRecorded ==
    \A i \in Invocations :
        /\ (At(i, "execute") /\ Moves(i)) => invocations'[i].pc = "use_last"
        /\ RecordUseCompletes(i) =>
                /\ DocsOf(command_executions', Key(i)) # <<>>
                /\ \A k \in 1..Len(command_executions') :
                        command_executions'[k].name_and_user = Key(i) =>
                            command_executions'[k].timestamp = invocations[i].timestamp
                                \/ (k <= Len(command_executions)
                                    /\ command_executions'[k] = command_executions[k])

\* C19: every invocation that executed goes on to use_last, and when its
\* store calls succeed the key (user, command) has a record carrying its
\* timestamp afterwards, created or overwritten; no step deletes a record:
\* a key that has a record has one in every later state.
C19_RecordsAreNeverDeleted == [][RecordsKept /\ ExecutedThenRecorded]_vars

C19_Witness ==
    /\ Len(command_executions) = 1
    /\ command_executions[1].timestamp = 2
    /\ \A i \in Invocations :
        /\ At(i, "done")
        /\ invocations[i].result = Ok("unit")
        /\ invocations[i].recorded = Ok("unit")

(* ==================== properties of the plugin module ================== *)
\* enabledPlugins: the stored set united with the default plugins
EnabledPlugins == Range(enabled_plugins) \cup Range(default_plugins)

EnableReturns(t) ==
    /\ plugin_tasks'[t].op = "enable"
    /\ plugin_tasks'[t] # plugin_tasks[t]

EnableStep ==
    \A t \in PluginTasks :
        EnableReturns(t) =>
            /\ plugin_tasks'[t].pc = "done"
            /\ plugin_tasks'[t].plugin \in EnabledPlugins =>
                    /\ \/ plugin_tasks'[t].ret = AlreadyEnabled(plugin_tasks'[t].plugin)
                       \/ plugin_tasks'[t].ret = Err(<<"find_all">>)
                    /\ UNCHANGED <<enabled_plugins, guild_commands>>
            /\ (plugin_tasks'[t].plugin \notin EnabledPlugins
                    /\ plugin_tasks'[t].ret = Ok("unit")) =>
                    Contains(enabled_plugins', plugin_tasks'[t].plugin)

\* C20: enable_plugin(plugin) fails with "already enabled" whenever plugin is
\* in the stored set united with the default plugins (or with the I/O error of
\* the read of the stored set), and then neither the stored set nor the
\* registered commands change; an enable that returns Ok for a plugin outside
\* that union has stored the plugin.
C20_EnableFailsWhenEnabled == [][EnableStep]_vars

C20_Witness ==
    \E t \in PluginTasks :
        /\ plugin_tasks[t].pc = "done"
        /\ plugin_tasks[t].op = "enable"
        /\ plugin_tasks[t].ret = AlreadyEnabled("Moderation")
        /\ ~Contains(enabled_plugins, "Moderation")
        /\ "ban" \in guild_commands

(* ====================== properties of disable_plugin =================== *)
CannotDisableDefault(plugin) == Err(<<"CannotDisableDefault", plugin>>)

\* task t takes a step of a call of disable_plugin
DisableMoves(t) ==
    /\ plugin_tasks'[t].op = "disable"
    /\ plugin_tasks'[t] # plugin_tasks[t]

DisableDefaultStep ==
    \A t \in PluginTasks :
        (DisableMoves(t) /\ is_default(plugin_tasks'[t].plugin)) =>
            /\ plugin_tasks'[t].pc = "done"
            /\ \/ plugin_tasks'[t].ret = CannotDisableDefault(plugin_tasks'[t].plugin)
               \/ plugin_tasks'[t].ret = Err(<<"find_all">>)
            /\ UNCHANGED <<enabled_plugins, guild_commands>>

\* C21: disable on a default plugin fails with CannotDisableDefault in every
\* guild state (or with the I/O error of the read of the stored set): the
\* call returns the error at once, and neither the stored set nor the
\* registered command list changes.
C21_DisableDefaultFails == [][DisableDefaultStep]_vars

\* every plugin is a default plugin, hence enabled in every state: no call of
\* enable_plugin gets past its check, and no call of disable_plugin fails it
EveryPluginIsEnabled ==
    /\ non_default_plugins = <<>>
    /\ Range(all_plugins) \subseteq EnabledPlugins
    /\ \A t \in PluginTasks :
        /\ plugin_tasks[t].op = "enable" => plugin_tasks[t].ret # Ok("unit")
        /\ plugin_tasks[t].op = "disable" =>
                plugin_tasks[t].ret # AlreadyDisabled(plugin_tasks[t].plugin)

\* C23: in every reachable state the persisted enabled-plugin set contains no
\* default plugin: neither startup preparation nor an enable call stores one.
C23_DefaultsNeverStored ==
    \A k \in 1..Len(enabled_plugins) : ~is_default(enabled_plugins[k])

(* =================== properties of the registration ==================== *)
\* enabledCommands of the persisted state, and the names they are
\* registered under
EnabledCommands ==
    {metadata \in Range(all_commands) : metadata.plugin \in EnabledPlugins}

EnabledCommandNames == UNION {Range(get_all_names(metadata)) : metadata \in EnabledCommands}

Synchronized == guild_commands = EnabledCommandNames

Returned(t, op, returned) ==
    /\ plugin_tasks[t].pc = "done"
    /\ plugin_tasks[t].op = op
    /\ plugin_tasks[t].ret = returned

RegistrationStages == {"set_application_commands", "get_guild_commands", "register_commands"}

Count(collection, plugin) ==
    Cardinality({k \in 1..Len(collection) : collection[k] = plugin})

\* the call of task t ends in this step with a failure of set_up_commands
RegistrationFails(t) ==
    /\ plugin_tasks[t].pc \in RegistrationStages
    /\ plugin_tasks'[t].pc = "done"
    /\ IsErr(plugin_tasks'[t].ret)

\* disable_plugin has deleted the plugin's document before it starts
\* set_up_commands
PersistedBeforeRegistration ==
    \A t \in PluginTasks :
        (plugin_tasks[t].pc = "delete_one" /\ plugin_tasks'[t].pc \in RegistrationStages) =>
            /\ plugin_tasks'[t].pc = "set_application_commands"
            /\ UNCHANGED guild_commands
            /\ \A plugin \in Range(all_plugins) :
                Count(enabled_plugins', plugin) =
                    IF plugin = plugin_tasks[t].plugin /\ Count(enabled_plugins, plugin) > 0
                    THEN Count(enabled_plugins, plugin) - 1
                    ELSE Count(enabled_plugins, plugin)

NotRolledBack ==
    \A t \in PluginTasks :
        RegistrationFails(t) => UNCHANGED enabled_plugins

\* an enable whose registration fails has, by the claim, already stored the
\* plugin
EnablePersistedBeforeRegistration ==
    \A t \in PluginTasks :
        (EnableReturns(t) /\ plugin_tasks'[t].ret = Err(<<"create_application_command">>)) =>
            Contains(enabled_plugins', plugin_tasks'[t].plugin)

ResynchronizationRepairs ==
    \A t \in PluginTasks :
        (/\ plugin_tasks[t].pc = "register_commands"
         /\ plugin_tasks'[t].pc = "done"
         /\ plugin_tasks'[t].ret = Ok("unit")) => Synchronized'

ResynchronizationCompletes ==
    \E t \in PluginTasks :
        /\ plugin_tasks[t].pc \in RegistrationStages
        /\ plugin_tasks'[t].pc = "done"
        /\ plugin_tasks'[t].ret = Ok("unit")

\* both calls have returned
EnableAndDisableEnded(plugin) ==
    /\ plugin_tasks[1].pc = "done"
    /\ plugin_tasks[1].op = "enable"
    /\ plugin_tasks[1].plugin = plugin
    /\ plugin_tasks[2].pc = "done"
    /\ plugin_tasks[2].op = "disable"
    /\ plugin_tasks[2].plugin = plugin

NamesOf(metadata) ==
    {metadata.name} \cup
        (IF metadata.aliases = None THEN {} ELSE Range(metadata.aliases.val))

Descriptors == 1..Len(all_commands)

\* invocation i has resolved the name it was invoked with
Resolved(i) == invocations[i].pc \in {"unknown_command_respond", "cooled_down"}

ResolvedTo(i, k) ==
    /\ invocations[i].pc = "cooled_down"
    /\ invocations[i].command = Some(all_commands[k])

\* C29: command_by_name(name) returns the first descriptor of the whole
\* command table (all plugins, whatever the guild has enabled) whose primary
\* name or one of whose aliases is name, and returns none exactly when no
\* descriptor has that name or alias.
C29_ResolveByNameOrAlias ==
    \A i \in Invocations :
        Resolved(i) =>
            LET name == invocations[i].name.val
                candidates == {k \in Descriptors : name \in NamesOf(all_commands[k])}
            IN  /\ candidates = {} <=> invocations[i].pc = "unknown_command_respond"
                /\ candidates = {} <=> invocations[i].command = None
                /\ \A k \in candidates :
                        (\A j \in candidates : k <= j) => ResolvedTo(i, k)

C29_Witness ==
    \E i \in Invocations :
        /\ invocations[i].pc = "cooled_down"
        /\ invocations[i].name = Some("am-i-alive")
        /\ invocations[i].command.val.name = "ping"
        /\ invocations[i].command.val.plugin = "Information"

Candidates(name) == {k \in Descriptors : name \in NamesOf(all_commands[k])}

RecordingStages == {"use_last", "insert_one", "update_entry"}

\* the recording of invocation i fails in this step
RecordUseFails(i) ==
    /\ invocations[i].pc \in RecordingStages
    /\ IsErr(invocations'[i].recorded)

RecordedAfterExecute ==
    \A i \in Invocations :
        /\ (At(i, "execute") /\ Moves(i)) =>
                /\ invocations'[i].pc = "use_last"
                /\ invocations'[i].result \in {Ok("unit"), Err("execute")}
                /\ UNCHANGED command_executions
        /\ (invocations[i].pc \in RecordingStages) => Executed(i)
        /\ RecordUseCompletes(i) =>
                /\ command_executions' # <<>>
                /\ get_last_use(command_executions', invocations[i].user,
                                invocations[i].command.val.name) = Some(invocations[i].timestamp)
                /\ invocations'[i].result = invocations[i].result

RecordingFailureIsIgnored ==
    \A i \in Invocations :
        RecordUseFails(i) =>
            /\ invocations'[i].pc = "done"
            /\ invocations'[i].result = invocations[i].result
            /\ invocations'[i].response = None
            /\ UNCHANGED command_executions

\* C38: the last-use timestamp is recorded after execute has returned, and
\* it is recorded whether execute returned success or an error; a failure of
\* the recording is ignored: the invocation ends normally, and neither the
\* logged result nor the store changes.
C38_RecordedAfterExecuteEitherWay ==
    [][RecordedAfterExecute /\ RecordingFailureIsIgnored]_vars

C38_Witness ==
    \E i \in Invocations :
        /\ invocations[i].pc = "done"
        /\ invocations[i].result = Err("execute")
        /\ invocations[i].recorded = Ok("unit")
        /\ command_executions # <<>>

(* ================= properties of a rejected invocation ================= *)
RejectionStages ==
    {"not_ready_respond", "unknown_command_respond", "not_cooled_down_respond"}

Rejected(i) == invocations[i].pc \in RejectionStages

\* run_application_command turns each of the three conditions into its rejection
RejectedAtDispatch ==
    \A i \in Invocations :
        /\ (~InFlight(i) /\ InFlight(i)' /\ ~READY_TO_GO) =>
                invocations'[i].pc = "not_ready_respond"
        /\ (~InFlight(i) /\ InFlight(i)' /\ READY_TO_GO
                /\ command_by_name(invocations'[i].name.val) = None) =>
                invocations'[i].pc = "unknown_command_respond"
        /\ (At(i, "cooled_down") /\ invocations'[i].cooled_down = Ok(FALSE)) =>
                invocations'[i].pc = "not_cooled_down_respond"
        /\ (~Rejected(i) /\ Rejected(i)') => UNCHANGED command_executions

RejectionEndsTheInvocation ==
    \A i \in Invocations :
        (Rejected(i) /\ Moves(i)) =>
            /\ invocations'[i].pc \in {"done", "panicked"}
            /\ invocations'[i].result = Unset
            /\ invocations'[i].recorded = Unset
            /\ UNCHANGED command_executions

RejectedHasNotExecuted ==
    \A i \in Invocations :
        (Rejected(i) \/ invocations[i].response # None) =>
            /\ ~Executed(i)
            /\ invocations[i].recorded = Unset

\* C39: an invocation rejected at dispatch (bot not ready, unknown command
\* name, cooldown not elapsed) never calls execute and never records a use:
\* its steps leave the cooldown store unchanged.
C39_RejectedLeavesStoreUnchanged ==
    [][RejectedAtDispatch /\ RejectionEndsTheInvocation]_vars /\ []RejectedHasNotExecuted

C39_Witness ==
    /\ command_executions # <<>>
    /\ \E i \in Invocations :
        /\ invocations[i].pc = "done"
        /\ invocations[i].cooled_down = Ok(FALSE)
        /\ invocations[i].response # None
    /\ \E j \in Invocations :
        /\ invocations[j].pc = "done"
        /\ invocations[j].cooled_down = Unset
        /\ invocations[j].response # None

(* ============ properties of the notification report of moderate ======== *)
\* the follow-up message about the DM outcome is not delivered in this step
NotificationReportFails ==
    /\ pc = "notification_results"
    /\ pc' # pc
    /\ reports' = reports

NotificationReportFailureReturns ==
    NotificationReportFails =>
        /\ eligibility = Ok("Eligible")
        /\ pc' = "done"
        /\ ret' = Err("create_followup_message")
        /\ calls' = calls
        /\ stages' = stages
        /\ action_result' = action_result

NoActionAfterFailedNotificationReport ==
    (Finished /\ eligibility = Ok("Eligible") /\ ret = Err("create_followup_message")) =>
        /\ IssuedCalls(PlatformActions) = {}
        /\ ~InStages("action")
        /\ action_result = Unset
        /\ dm_result # Unset

\* C40: in an eligible moderate invocation, when the report about the DM
\* outcome can not be sent, moderate returns that error and the platform
\* action is not issued, whether the DM itself succeeded or failed.
C40_FailedNotificationReportAborts ==
    [][NotificationReportFailureReturns]_vars /\ []NoActionAfterFailedNotificationReport

C40_Witness ==
    /\ Finished
    /\ eligibility = Ok("Eligible")
    /\ ret = Err("create_followup_message")
    /\ dm_result = Ok("unit")
    /\ IssuedCalls({"dm"}) # {}
    /\ IssuedCalls(PlatformActions) = {}

(* ================= properties of concurrent recordings ================= *)
AtMostOneRecordPerKey ==
    \A key \in AllKeys : Len(DocsOf(command_executions, key)) <= 1

\* a last-use read made right after a completed recording gives what it wrote
LastWriteIsRead ==
    \A i \in Invocations :
        RecordUseCompletes(i) =>
            get_last_use(command_executions', invocations[i].user,
                         invocations[i].command.val.name) = Some(invocations[i].timestamp)

\* C36: under any interleaving of concurrent recordings for one (user,
\* command) key the store holds at most one cooldown record for the key, and
\* a last-use read gives the timestamp of the most recent write.
C36_ConcurrentRecordUse == []AtMostOneRecordPerKey /\ [][LastWriteIsRead]_vars

(* ============ properties of the remaining cooldown under any clock ===== *)
ComputesRemaining(i) ==
    /\ invocations[i].pc \in {"cooled_down", "not_cooled_down_respond"}
    /\ Moves(i)

\* get_remaining_cooldown returns: the only way not to is a failed store read
RemainingCompletes ==
    \A i \in Invocations :
        (ComputesRemaining(i) /\ invocations'[i].pc = "panicked") =>
            IsErr(invocations'[i].cooled_down)

RemainingWithinCooldown ==
    \A i \in Invocations :
        (At(i, "not_cooled_down_respond") /\ invocations'[i].response # None) =>
            /\ invocations'[i].response.val.seconds_left # None
            /\ invocations'[i].response.val.seconds_left.val
                    \in 0..invocations[i].command.val.cooldown_secs

\* C37: for every stored last-use timestamp and every current wall-clock
\* time, a stored timestamp later than the current time included, the
\* computation of the remaining cooldown completes, and its value lies
\* between 0 and the command's cooldown.
C37_RemainingCompletesInRange == [][RemainingCompletes /\ RemainingWithinCooldown]_vars

(* ================= properties of ValidatedOptions::validate ============ *)
Validated == validation # Unset
IsString(option) == option.resolved # None /\ option.resolved.val.kind = "String"
IsTagged(names, option) == Contains(names, option.name)
DatesPass == IsOk(validate_dates(validated_options, options))
TwentyEightDays == Duration_days(28)

\* C34: a duration-tagged option whose parsed value exceeds 28 days fails
\* with DurationTooLong, and one of exactly 28 days or less passes the
\* duration check ("29d" fails, "28d" succeeds).
C34_DurationBound ==
    Validated =>
        \A k \in 1..Len(options) :
            LET option == options[k]
            IN  (/\ DatesPass
                 /\ IsTagged(validated_options.durations, option)
                 /\ IsString(option)
                 /\ IsOk(parse_time(option.resolved.val.val))) =>
                    IF Longer(parse_time(option.resolved.val.val).val, TwentyEightDays)
                    THEN validation = Err(DurationTooLong(option.resolved.val.val))
                    ELSE /\ validation # Err(DurationTooLong(option.resolved.val.val))
                         /\ validation # Err(NotDuration(option.resolved.val.val))

InvalidDate(option) ==
    /\ IsTagged(validated_options.dates, option)
    /\ ~IsString(option) \/ IsErr(Date_parse(option.resolved.val.val))

InvalidDuration(option) ==
    /\ IsTagged(validated_options.durations, option)
    /\ \/ ~IsString(option)
       \/ IsErr(parse_time(option.resolved.val.val))
       \/ Longer(parse_time(option.resolved.val.val).val, TwentyEightDays)

NotAMember(option) ==
    /\ IsTagged(validated_options.guild_members, option)
    /\ option.resolved # None
    /\ option.resolved.val.kind = "User"
    /\ option.resolved.val.member = None

Some_(P(_)) == \E k \in 1..Len(options) : P(options[k])
FailsWith(errors) == IsErr(validation) /\ validation.why.error \in errors

\* C33: validate checks the date-tagged options first, then the
\* duration-tagged ones, then the guild-member-tagged ones, and stops at the
\* first failure: an invalid date gives NotDate whatever else is invalid, an
\* invalid duration with valid dates gives NotDuration or DurationTooLong
\* even when a guild-member option is not a member; tagged names absent from
\* the invocation are skipped.
C33_DatesThenDurationsThenMembers ==
    Validated =>
        IF Some_(InvalidDate) THEN FailsWith({"NotDate"})
        ELSE IF Some_(InvalidDuration) THEN FailsWith({"NotDuration", "DurationTooLong"})
        ELSE IF Some_(NotAMember) THEN FailsWith({"NotGuildMember"})
        ELSE validation = Ok("unit")

(* ================= properties of validation at dispatch ================ *)
OptionsAreValid(i) ==
    IsOk(validate(validated_options_of(invocations[i].command.val), options))

ValidatedBeforeCooldownAndExecute ==
    \A i \in Invocations :
        ((At(i, "cooled_down") \/ At(i, "execute")) /\ Moves(i)) => OptionsAreValid(i)

\* C31: dispatch validates the options after resolving the command and
\* before the cooldown check and execute: neither the cooldown check nor
\* execute is run for an invocation whose options fail validation.
C31_ValidatedBeforeExecute == [][ValidatedBeforeCooldownAndExecute]_vars

(* ================= properties of the stored plugin set ================= *)
AtMostOneEntryPerPlugin ==
    \A plugin \in Range(all_plugins) : Count(enabled_plugins, plugin) <= 1

\* the step in which a disable call returns success
DisableSucceeds(t) ==
    /\ plugin_tasks[t].op = "disable"
    /\ plugin_tasks[t].pc # "done"
    /\ Returned(t, "disable", Ok("unit"))'

DisabledIsNotStored ==
    \A t \in PluginTasks :
        DisableSucceeds(t) => Count(enabled_plugins', plugin_tasks[t].plugin) = 0

\* C35: under any interleaving of concurrent enable calls for one plugin the
\* stored collection never holds more than one entry for a plugin, and when
\* a disable of the plugin returns success no entry for it is stored.
C35_OneStoredEntryPerPlugin == []AtMostOneEntryPerPlugin /\ [][DisabledIsNotStored]_vars

C35_Witness ==
    /\ \E plugin \in Range(all_plugins) :
        /\ \A t \in PluginTasks : Returned(t, "enable", AlreadyEnabled(plugin))
        /\ Count(enabled_plugins, plugin) = 1

====
